---- MODULE Spec2Model ----
(***************************************************************************)
(* usrv-card-control: retry quota / card block engine (ProcessBlock), the  *)
(* daily restore pipeline (RestoreDailyRetries) and the status evaluator   *)
(* (CheckCardStatus) over the two DynamoDB tables DYNAMO_BLOCKED_CARD and  *)
(* DYNAMO_CARD_RETRY.                                                      *)
(*                                                                         *)
(* Strings are sequences of one-character strings, so that Sprintf,        *)
(* strings.EqualFold and the DynamoDB contains() filter are computed on    *)
(* characters.  Time is counted in clock units of MsPerUnit milliseconds   *)
(* (TLC integers are 32 bit and 30 days of milliseconds do not fit); two   *)
(* readings of time.Now() in the same millisecond are two readings of the  *)
(* same clock value.                                                       *)
(***************************************************************************)
EXTENDS Integers, Sequences, FiniteSets, TLC

VARIABLES
    blockedCardTable,   \* DYNAMO_BLOCKED_CARD: cardID -> DynamoBlockedCard
    cardRetryTable,     \* DYNAMO_CARD_RETRY:   retryKey -> CardRetry
    clock,              \* time.Now().UTC().UnixMilli(), in clock units
    proc,               \* one record per lambda invocation slot
    last,               \* the record of the command that finished last
    previous,           \* the record of the command that finished before it
    started,            \* number of commands delivered so far
    ticks,              \* number of clock advances so far
    seqno,              \* history: successful mutations per stored record
    blockSucceeded,     \* history: (cardID, merchantID) of successful block commands
    status,             \* last CheckCardStatus evaluation (request, time, response)
    transport           \* blockCardQueue, its dead-letter queue and the DLQ handler's runs

vars == <<blockedCardTable, cardRetryTable, clock, proc, last, previous, started,
          ticks, seqno, blockSucceeded, status, transport>>

----------------------------------------------------------------------------
(* Bounds of the model *)

MaxCmds == 2
MaxTicks == 1

\* the lambda invocations; all delivered commands may run concurrently
Workers == 1..MaxCmds

----------------------------------------------------------------------------
(* Strings *)

Lower == <<"a","b","c","d","e","f","g","h","i","j","k","l","m",
           "n","o","p","q","r","s","t","u","v","w","x","y","z">>
Upper == <<"A","B","C","D","E","F","G","H","I","J","K","L","M",
           "N","O","P","Q","R","S","T","U","V","W","X","Y","Z">>

\* simple case folding of one character
FoldChar(c) ==
    IF \E i \in 1..26 : Lower[i] = c
    THEN Upper[CHOOSE i \in 1..26 : Lower[i] = c]
    ELSE c

EqualFold(s, t) ==
    /\ Len(s) = Len(t)
    /\ \A i \in 1..Len(s) : FoldChar(s[i]) = FoldChar(t[i])

\* DynamoDB contains(path, operand) on a string attribute
Contains(s, sub) ==
    \E i \in 0..(Len(s) - Len(sub)) : SubSeq(s, i + 1, i + Len(sub)) = sub

Dash == <<"-">>

----------------------------------------------------------------------------
(* Program constants *)

BlockCardOperation == <<"b","l","o","c","k">>
RetryCardOperation == <<"r","e","t","r","y">>
DailyFrequency == <<"d","a","i","l","y">>
MonthlyFrequency == <<"m","o","n","t","h","l","y">>
Daily == <<"d","a","i","l","y">>
TEMPORARY == <<"T","E","M","P","O","R","A","R","Y">>
PERMANENT == <<"P","E","R","M","A","N","E","N","T">>
BrandVisa == <<"V","I","S","A">>
BrandMasterCard == <<"M","A","S","T","E","R","C","A","R","D">>
EmptyString == <<>>

DayHours == 24

\* milliseconds per unit of the model's clock (one hour)
MsPerUnit == 60 * 60 * 1000

oneDayMiliSeconds == (24 * 60 * 60 * 1000) \div MsPerUnit
oneMonthMiliSeconds == oneDayMiliSeconds * 30

\* time.Hour * DayHours, in clock units
ExpirationDelta == (DayHours * 60 * 60 * 1000) \div MsPerUnit

\* the MasterCard frequencies in the other order
FrequenciesMonthlyFirst(franchise) ==
    IF franchise = BrandVisa THEN <<MonthlyFrequency>>
    ELSE IF franchise = BrandMasterCard THEN <<MonthlyFrequency, DailyFrequency>>
    ELSE <<>>

Frequencies(franchise) ==
    IF franchise = BrandVisa THEN <<MonthlyFrequency>>
    ELSE IF franchise = BrandMasterCard THEN <<DailyFrequency, MonthlyFrequency>>
    ELSE <<>>

\* a missing map key reads as 0
Limits(franchise, frequency) ==
    IF franchise = BrandVisa /\ frequency = MonthlyFrequency THEN 15
    ELSE IF franchise = BrandMasterCard /\ frequency = MonthlyFrequency THEN 35
    ELSE IF franchise = BrandMasterCard /\ frequency = DailyFrequency THEN 7
    ELSE 0

----------------------------------------------------------------------------
(* Records *)

\* types.BlockedMerchant; the three fields are omitempty, an absent
\* attribute unmarshals to the zero value
BlockedMerchant(expirationDate, blockType, lastRetry) ==
    [expirationDate |-> expirationDate, blockType |-> blockType, lastRetry |-> lastRetry]

EmptyMap == <<>>

\* zero value of types.DynamoBlockedCard
ZeroBlockedCard == [cardID |-> EmptyString, timeStamp |-> 0, blockedMerchants |-> EmptyMap]

\* zero value of types.CardRetry
ZeroCardRetry ==
    [cardID |-> EmptyString, merchantID |-> EmptyString, retryKey |-> EmptyString,
     retries |-> <<>>, timeStamp |-> 0]

BlockCardRequest(merchantIdentifier, franchise, operation, cardID, conditional) ==
    [merchantIdentifier |-> merchantIdentifier, franchise |-> franchise,
     operation |-> operation, cardID |-> cardID, conditional |-> conditional]

RestoreDailyRequest(cardID, merchantID) ==
    [cardID |-> cardID, merchantID |-> merchantID]

----------------------------------------------------------------------------
(* Key and window calculus *)

generateCustomID(request, frequency) ==
    IF EqualFold(request.franchise, BrandMasterCard)
    THEN request.merchantIdentifier \o Dash \o frequency
    ELSE request.merchantIdentifier \o Dash \o request.conditional \o Dash \o frequency

generateRetryKey(request, frequency) ==
    request.cardID \o Dash \o generateCustomID(request, frequency)

getValidRetriesOnlyNow(currentDate, oldRetries, frequency) == <<currentDate>>

getValidRetriesKeepAll(currentDate, oldRetries, frequency) ==
    <<currentDate>> \o oldRetries

\* a pruning that keeps the element exactly one window old
getValidRetriesInclusive(currentDate, oldRetries, frequency) ==
    LET dateLimit == IF EqualFold(frequency, DailyFrequency)
                     THEN currentDate - oneDayMiliSeconds
                     ELSE currentDate - oneMonthMiliSeconds
    IN  <<currentDate>> \o SelectSeq(oldRetries, LAMBDA retry : retry >= dateLimit)

getValidRetries(currentDate, oldRetries, frequency) ==
    LET dateLimit == IF EqualFold(frequency, DailyFrequency)
                     THEN currentDate - oneDayMiliSeconds
                     ELSE currentDate - oneMonthMiliSeconds
    IN  <<currentDate>> \o SelectSeq(oldRetries, LAMBDA retry : retry > dateLimit)

\* processRetry: the comparison of the pruned list with the limit
LimitReachedStrict(validRetries, franchise, frequency) ==
    Len(validRetries) > Limits(franchise, frequency)

LimitReached(validRetries, franchise, frequency) ==
    Len(validRetries) >= Limits(franchise, frequency)

getBlocked(blockedMap) == \E i \in DOMAIN blockedMap : blockedMap[i]

generateExpirationDateMonth(now) == now + oneMonthMiliSeconds

generateExpirationDate(now) == now + ExpirationDelta

\* generateBlockUpdate: the block type written for an operation
BlockTypeAlwaysPermanent(operation) == PERMANENT

BlockTypeOf(operation) ==
    IF EqualFold(operation, BlockCardOperation) THEN PERMANENT ELSE TEMPORARY

\* generateBlockUpdate: the value SET at blockedMerchants.<merchantID>
generateBlockUpdate(operation, now) ==
    BlockedMerchant(generateExpirationDate(now), BlockTypeOf(operation), 0)

lastRetryUpdateZero(currentDate) == BlockedMerchant(0, EmptyString, 0)

\* an entry without blockType that carries an expirationDate
lastRetryUpdateWithExpiry(currentDate) ==
    BlockedMerchant(generateExpirationDate(currentDate), EmptyString, currentDate)

\* UpdateLastRetryBuilder: the value SET at blockedMerchants.<merchantID>
lastRetryUpdate(currentDate) == BlockedMerchant(0, EmptyString, currentDate)

----------------------------------------------------------------------------
(* Inputs *)

CardC1 == <<"C","1">>
MerchantM1 == <<"M","1">>
ConditionalX == <<"X">>

CardIDs == {CardC1, EmptyString}
Merchants == {MerchantM1}

\* The commands delivered: a block, a retry of each franchise, and a retry
\* and a block without cardID (a block does not read the brand).
BlockCardRequests ==
    {BlockCardRequest(MerchantM1, BrandVisa, BlockCardOperation, CardC1, ConditionalX),
     BlockCardRequest(MerchantM1, BrandVisa, RetryCardOperation, CardC1, ConditionalX),
     BlockCardRequest(MerchantM1, BrandMasterCard, RetryCardOperation, CardC1, ConditionalX),
     BlockCardRequest(MerchantM1, BrandMasterCard, RetryCardOperation, EmptyString,
                      ConditionalX),
     BlockCardRequest(MerchantM1, BrandVisa, BlockCardOperation, EmptyString,
                      ConditionalX)}

RestoreDailyRequests ==
    {RestoreDailyRequest(c, m) : c \in CardIDs \ {EmptyString}, m \in Merchants}

----------------------------------------------------------------------------
(* Storage *)

HasCard(cardID) == cardID \in DOMAIN blockedCardTable
HasRetry(key) == key \in DOMAIN cardRetryTable

\* GetItem on DYNAMO_BLOCKED_CARD unmarshalled into types.DynamoBlockedCard
ReadBlockedCard(cardID) ==
    [cardID |-> cardID,
     timeStamp |-> blockedCardTable[cardID].timeStamp,
     blockedMerchants |-> blockedCardTable[cardID].blockedMerchants]

\* GetItem on DYNAMO_CARD_RETRY unmarshalled into types.CardRetry
ReadCardRetry(key) ==
    [cardID |-> cardRetryTable[key].cardID,
     merchantID |-> cardRetryTable[key].merchantID,
     retryKey |-> key,
     retries |-> cardRetryTable[key].retries,
     timeStamp |-> cardRetryTable[key].timeStamp]

CardRec == "card"
RetryRec == "retry"

SeqOf(tbl, key) == IF <<tbl, key>> \in DOMAIN seqno THEN seqno[<<tbl, key>>] ELSE 0
BumpSeq(tbl, key) == (<<tbl, key>> :> (SeqOf(tbl, key) + 1)) @@ seqno

NoVersion == -1

\* One entry of a command's storage call history: the request builder, the
\* key, whether the call returned nil, the timeStamp its condition expects
\* (NoVersion: no condition), the timeStamp stored before the call (NoVersion:
\* no item), the timeStamp it writes, the number of mutations of the item when
\* the command read it (seen) and when the call ran (at), the merchant entry
\* before the call and the one it writes, and the retries list it writes;
\* fault: the call returned an error that is not an answer of the table.
Call(op, key, ok, expected, stored, newVersion, seen, at, prev, value, retries) ==
    [op |-> op, key |-> key, ok |-> ok, expected |-> expected, stored |-> stored,
     newVersion |-> newVersion, seen |-> seen, at |-> at, prev |-> prev,
     value |-> value, retries |-> retries, fault |-> FALSE]

StoredCardVersion(cardID) ==
    IF HasCard(cardID) THEN blockedCardTable[cardID].timeStamp ELSE NoVersion
StoredRetryVersion(key) ==
    IF HasRetry(key) THEN cardRetryTable[key].timeStamp ELSE NoVersion

ZeroMerchant == BlockedMerchant(0, EmptyString, 0)

\* the merchant entry of a stored card as types.BlockedMerchant reads it
StoredMerchant(cardID, merchantID) ==
    IF HasCard(cardID) /\ merchantID \in DOMAIN blockedCardTable[cardID].blockedMerchants
    THEN blockedCardTable[cardID].blockedMerchants[merchantID]
    ELSE ZeroMerchant

----------------------------------------------------------------------------
(* Lambda invocations *)

IdleProc ==
    [pc |-> "idle", kind |-> "none", request |-> <<>>,
     blockedCard |-> ZeroBlockedCard, seenCard |-> 0,
     currentDate |-> 0, fi |-> 0,
     retry |-> ZeroCardRetry, seenRetry |-> 0,
     blockedMap |-> <<>>,
     out |-> <<>>, seenOut |-> <<>>, err |-> "none", calls |-> <<>>]

ErrNil == "nil"
ErrItemNotFound == "ErrItemNotFound"
ErrConditionalCheckFailed == "ConditionalCheckFailedException"

FinishNil(p, e) == [p EXCEPT !.pc = "done", !.err = ErrNil]

Finish(p, e) == [p EXCEPT !.pc = "done", !.err = e]
Logged(p, c) == [p EXCEPT !.calls = Append(@, c)]

\* The invocation w continues as q; when q has returned, its record becomes
\* the last finished command and the slot is free again.
Step(w, q) ==
    IF q.pc = "done"
    THEN /\ proc' = [proc EXCEPT ![w] = IdleProc]
         /\ last' = q
         /\ previous' = last
    ELSE /\ proc' = [proc EXCEPT ![w] = q]
         /\ UNCHANGED <<last, previous, transport>>

\* the transport hands a command to the lowest free invocation slot
Free(w) ==
    /\ proc[w].pc = "idle"
    /\ \A v \in Workers : v < w => proc[v].pc # "idle"
    /\ started < MaxCmds

\* ProcessBlock after the loop over the franchise's frequencies
AfterLoopAnyBrand(p) ==
    IF getBlocked(p.blockedMap) THEN [p EXCEPT !.pc = "blockCard"]
    ELSE [p EXCEPT !.pc = "updateLastRetry"]

\* a loop end that leaves a stored TEMPORARY block of the merchant as it is
AfterLoopUnlessBlocked(p) ==
    LET merchantID == p.request.merchantIdentifier
        held == /\ merchantID \in DOMAIN p.blockedCard.blockedMerchants
                /\ p.blockedCard.blockedMerchants[merchantID].blockType = TEMPORARY
    IN  IF getBlocked(p.blockedMap) /\ ~held THEN [p EXCEPT !.pc = "blockCard"]
        ELSE IF EqualFold(p.request.franchise, BrandVisa) THEN Finish(p, ErrNil)
        ELSE [p EXCEPT !.pc = "updateLastRetry"]

AfterLoop(p) ==
    IF getBlocked(p.blockedMap) THEN [p EXCEPT !.pc = "blockCard"]
    ELSE IF EqualFold(p.request.franchise, BrandVisa) THEN Finish(p, ErrNil)
    ELSE [p EXCEPT !.pc = "updateLastRetry"]

\* ProcessBlock after the BlockedCard is loaded or created: a block goes to
\* blockCard; a retry samples currentDate := time.Now().UTC().UnixMilli() and
\* enters the loop over the frequencies of the franchise
AfterLoadAlwaysRetry(p) ==
    LET q == [p EXCEPT !.currentDate = clock]
    IN  IF Len(Frequencies(p.request.franchise)) = 0
        THEN AfterLoop(q)
        ELSE [q EXCEPT !.pc = "getRetry", !.fi = 1]

AfterLoad(p) ==
    IF EqualFold(p.request.operation, BlockCardOperation)
    THEN [p EXCEPT !.pc = "blockCard"]
    ELSE LET q == [p EXCEPT !.currentDate = clock]
         IN  IF Len(Frequencies(p.request.franchise)) = 0
             THEN AfterLoop(q)
             ELSE [q EXCEPT !.pc = "getRetry", !.fi = 1]

----------------------------------------------------------------------------
(* ProcessBlock *)

\* ProcessBlock: request.CardID == "", "empty required request params"
EmptyRequiredParamsNever(request) == FALSE

EmptyRequiredParams(request) == request.cardID = EmptyString

\* The transport delivers one RetryOrBlock command: ProcessBlock up to and
\* including its first storage call.  An empty cardID returns nil before any
\* storage call; bs.getBlockedCard is a consistent GetItem, and
\* ErrItemNotFound leads to the creation of the record.
ProcessBlockLoad(request) ==
    LET p == [IdleProc EXCEPT !.kind = "block", !.request = request]
        cardID == request.cardID
        c == Call("GetBlockedCard", cardID, HasCard(cardID), NoVersion,
                  StoredCardVersion(cardID), NoVersion, SeqOf(CardRec, cardID),
                  SeqOf(CardRec, cardID), ZeroMerchant, ZeroMerchant, <<>>)
    IN  IF EmptyRequiredParams(request) THEN Finish(p, ErrNil)
        ELSE IF HasCard(cardID)
        THEN AfterLoad(Logged([p EXCEPT !.blockedCard = ReadBlockedCard(cardID),
                                        !.seenCard = SeqOf(CardRec, cardID)], c))
        ELSE Logged([p EXCEPT !.pc = "generateNewBlockedCard",
                              !.seenCard = SeqOf(CardRec, cardID)], c)

\* The transport delivers one command: ProcessBlock up to the load
ProcessBlock(w, request) ==
    /\ Free(w)
    /\ started' = started + 1
    /\ Step(w, ProcessBlockLoad(request))
    /\ UNCHANGED <<blockedCardTable, cardRetryTable, clock, ticks, seqno,
                   blockSucceeded, status, transport>>

\* PutBlockedCardBuilder: the item alone, no condition expression
PutBlockedCard(cardID, blockedCard) ==
    (cardID :> [timeStamp |-> blockedCard.timeStamp,
                blockedMerchants |-> blockedCard.blockedMerchants])
    @@ blockedCardTable

\* generateNewBlockedCard: PutItem of a fresh record
generateNewBlockedCard(w) ==
    LET p == proc[w]
        cardID == p.request.cardID
        blockedCard == [cardID |-> cardID, timeStamp |-> clock,
                        blockedMerchants |-> EmptyMap]
        c == Call("PutBlockedCard", cardID, TRUE, NoVersion,
                  StoredCardVersion(cardID), clock, p.seenCard,
                  SeqOf(CardRec, cardID), ZeroMerchant, ZeroMerchant, <<>>)
    IN  /\ p.pc = "generateNewBlockedCard"
        /\ blockedCardTable' = PutBlockedCard(cardID, blockedCard)
        /\ seqno' = BumpSeq(CardRec, cardID)
        /\ Step(w, AfterLoad(Logged([p EXCEPT !.blockedCard = blockedCard,
                                              !.seenCard = SeqOf(CardRec, cardID) + 1], c)))
        /\ UNCHANGED <<cardRetryTable, clock, started, ticks, blockSucceeded, status, transport>>

\* processRetry: bs.getRetry; ErrItemNotFound leaves the zero CardRetry
getRetry(w) ==
    LET p == proc[w]
        frequency == Frequencies(p.request.franchise)[p.fi]
        key == generateRetryKey(p.request, frequency)
        c == Call("GetRetry", key, HasRetry(key), NoVersion,
                  StoredRetryVersion(key), NoVersion, SeqOf(RetryRec, key),
                  SeqOf(RetryRec, key), ZeroMerchant, ZeroMerchant, <<>>)
    IN  /\ p.pc = "getRetry"
        /\ Step(w, Logged([p EXCEPT !.pc = "incrementRetry",
                                    !.retry = IF HasRetry(key) THEN ReadCardRetry(key)
                                              ELSE ZeroCardRetry,
                                    !.seenRetry = SeqOf(RetryRec, key)], c))
        /\ UNCHANGED <<blockedCardTable, cardRetryTable, clock, started, ticks,
                       seqno, blockSucceeded, status, transport>>

\* an upsert without condition expression
IncrementRetryUnconditional(key, cardRetry) == TRUE

\* a condition without the attribute_not_exists branch
IncrementRetryConditionStrict(key, cardRetry) ==
    HasRetry(key) /\ cardRetryTable[key].timeStamp = cardRetry.timeStamp

\* IncrementRetryBuilder: timeStamp = :observed OR attribute_not_exists(timeStamp)
IncrementRetryCondition(key, cardRetry) ==
    \/ (HasRetry(key) /\ cardRetryTable[key].timeStamp = cardRetry.timeStamp)
    \/ ~HasRetry(key)

\* an upsert that stores the list without the timestamp of its command
IncrementRetryItemUnappended(key, retries, request, newVersion) ==
    [cardID |-> IF HasRetry(key) THEN cardRetryTable[key].cardID ELSE request.cardID,
     merchantID |-> IF HasRetry(key) THEN cardRetryTable[key].merchantID
                    ELSE request.merchantIdentifier,
     retries |-> Tail(retries),
     timeStamp |-> newVersion]

\* IncrementRetryBuilder: SET timeStamp, retries, cardID and merchantID if_not_exists
IncrementRetryItem(key, retries, request, newVersion) ==
    [cardID |-> IF HasRetry(key) THEN cardRetryTable[key].cardID ELSE request.cardID,
     merchantID |-> IF HasRetry(key) THEN cardRetryTable[key].merchantID
                    ELSE request.merchantIdentifier,
     retries |-> retries,
     timeStamp |-> newVersion]

\* incrementRetry and the limit check of processRetry
incrementRetry(w) ==
    LET p == proc[w]
        frequencies == Frequencies(p.request.franchise)
        frequency == frequencies[p.fi]
        key == generateRetryKey(p.request, frequency)
        retries == getValidRetries(p.currentDate, p.retry.retries, frequency)
        newVersion == clock
        ok == IncrementRetryCondition(key, p.retry)
        item == IncrementRetryItem(key, retries, p.request, newVersion)
        c == Call("IncrementRetry", key, ok, p.retry.timeStamp,
                  StoredRetryVersion(key), newVersion, p.seenRetry,
                  SeqOf(RetryRec, key), ZeroMerchant, ZeroMerchant, retries)
        q == Logged([p EXCEPT !.blockedMap = Append(@,
                                  LimitReached(retries, p.request.franchise, frequency))], c)
    IN  /\ p.pc = "incrementRetry"
        /\ IF ok
           THEN /\ cardRetryTable' = (key :> item) @@ cardRetryTable
                /\ seqno' = BumpSeq(RetryRec, key)
                /\ Step(w, IF p.fi < Len(frequencies)
                           THEN [q EXCEPT !.pc = "getRetry", !.fi = p.fi + 1]
                           ELSE AfterLoop(q))
           ELSE /\ Step(w, Finish(Logged(p, c), ErrConditionalCheckFailed))
                /\ UNCHANGED <<cardRetryTable, seqno, transport>>
        /\ UNCHANGED <<blockedCardTable, clock, started, ticks, blockSucceeded, status, transport>>

\* UpdateBlockCardBuilder / UpdateLastRetryBuilder: timeStamp = :observed
CardCondition(cardID, blockedCard) ==
    HasCard(cardID) /\ blockedCardTable[cardID].timeStamp = blockedCard.timeStamp

\* SET blockedMerchants.<merchantID> = :entry, timeStamp = :newVersion
SetMerchant(cardID, merchantID, entry, newVersion) ==
    (cardID :> [timeStamp |-> newVersion,
                blockedMerchants |->
                    (merchantID :> entry) @@ blockedCardTable[cardID].blockedMerchants])
    @@ blockedCardTable

\* one conditional UpdateItem of a merchant entry by invocation w
UpdateMerchant(w, op, cardID, merchantID, entry, newVersion) ==
    LET p == proc[w]
        ok == CardCondition(cardID, p.blockedCard)
        c == Call(op, cardID, ok, p.blockedCard.timeStamp,
                  StoredCardVersion(cardID), newVersion, p.seenCard,
                  SeqOf(CardRec, cardID), StoredMerchant(cardID, merchantID), entry, <<>>)
    IN  /\ blockedCardTable' = IF ok
                               THEN SetMerchant(cardID, merchantID, entry, newVersion)
                               ELSE blockedCardTable
        /\ seqno' = IF ok THEN BumpSeq(CardRec, cardID) ELSE seqno
        /\ Step(w, Finish(Logged(p, c), IF ok THEN ErrNil ELSE ErrConditionalCheckFailed))

\* blockCard: UpdateItem built by UpdateBlockCardBuilder
blockCard(w) ==
    LET p == proc[w]
        cardID == p.request.cardID
        merchantID == p.request.merchantIdentifier
    IN  /\ p.pc = "blockCard"
        /\ UpdateMerchant(w, "UpdateBlockCard", cardID, merchantID,
                          generateBlockUpdate(p.request.operation, clock), clock)
        /\ blockSucceeded' =
              IF CardCondition(cardID, p.blockedCard)
                 /\ EqualFold(p.request.operation, BlockCardOperation)
              THEN blockSucceeded \cup {<<cardID, merchantID>>}
              ELSE blockSucceeded
        /\ UNCHANGED <<cardRetryTable, clock, started, ticks, status, transport>>

\* updateLastRetry: UpdateItem built by UpdateLastRetryBuilder(currentDate, ...)
updateLastRetry(w) ==
    LET p == proc[w]
    IN  /\ p.pc = "updateLastRetry"
        /\ UpdateMerchant(w, "UpdateLastRetry", p.blockedCard.cardID,
                          p.request.merchantIdentifier,
                          lastRetryUpdate(p.currentDate), clock)
        /\ UNCHANGED <<cardRetryTable, clock, started, ticks, blockSucceeded, status, transport>>

----------------------------------------------------------------------------
(* RestoreDailyRetries *)

\* QueryRetriesBuilder: index cardIdMerchantIndex, key condition on cardID and
\* merchantID, filter contains(retryKey, "daily")
QueryRetries(cardID, merchantID) ==
    {key \in DOMAIN cardRetryTable :
        /\ cardRetryTable[key].cardID = cardID
        /\ cardRetryTable[key].merchantID = merchantID
        /\ Contains(key, Daily)}

\* the orders in which a query may return a set of rows
Orders(S) ==
    {f \in [1..Cardinality(S) -> S] : \A i, j \in 1..Cardinality(S) : f[i] = f[j] => i = j}

\* After the deletes (or with nothing to delete) cleanLastRetry follows.
AfterDelete(p) ==
    IF p.fi < Len(p.out) THEN [p EXCEPT !.pc = "deleteRetry", !.fi = p.fi + 1]
    ELSE [p EXCEPT !.pc = "cleanLastRetry"]

\* The transport delivers one RestoreDaily command: RestoreDailyRetries up to
\* and including the Query of cleanDailyRetries.
RestoreDailyQuery(request, order) ==
    LET p == [IdleProc EXCEPT !.kind = "restore", !.request = request]
    IN  AfterDelete(Logged([p EXCEPT
                !.out = [i \in 1..Len(order) |-> ReadCardRetry(order[i])],
                !.seenOut = [i \in 1..Len(order) |-> SeqOf(RetryRec, order[i])],
                !.fi = 0],
            Call("QueryRetries", request.cardID, TRUE, NoVersion, NoVersion,
                 NoVersion, 0, 0, ZeroMerchant, ZeroMerchant, <<>>)))

\* The transport delivers one RestoreDaily command
RestoreDailyRetries(w, request) ==
    /\ Free(w)
    /\ started' = started + 1
    /\ \E order \in Orders(QueryRetries(request.cardID, request.merchantID)) :
          Step(w, RestoreDailyQuery(request, order))
    /\ UNCHANGED <<blockedCardTable, cardRetryTable, clock, ticks, seqno,
                   blockSucceeded, status, transport>>

DeleteCardRetryKeep(key, cardRetry) == cardRetryTable

\* DeleteCardRetryBuilder: the key alone, no condition expression
DeleteCardRetry(key, cardRetry) ==
    [k \in DOMAIN cardRetryTable \ {key} |-> cardRetryTable[k]]

\* cleanDailyRetries: one DeleteItem
deleteRetry(w) ==
    LET p == proc[w]
        key == p.out[p.fi].retryKey
        c == Call("DeleteCardRetry", key, TRUE, NoVersion,
                  StoredRetryVersion(key), NoVersion, p.seenOut[p.fi],
                  SeqOf(RetryRec, key), ZeroMerchant, ZeroMerchant, <<>>)
    IN  /\ p.pc = "deleteRetry"
        /\ cardRetryTable' = DeleteCardRetry(key, p.out[p.fi])
        /\ seqno' = IF HasRetry(key) THEN BumpSeq(RetryRec, key) ELSE seqno
        /\ Step(w, AfterDelete(Logged(p, c)))
        /\ UNCHANGED <<blockedCardTable, clock, started, ticks, blockSucceeded, status, transport>>

cleanLastRetryNotFoundNil(w) ==
    LET p == proc[w]
        cardID == p.request.cardID
        c == Call("GetBlockedCard", cardID, HasCard(cardID), NoVersion,
                  StoredCardVersion(cardID), NoVersion, SeqOf(CardRec, cardID),
                  SeqOf(CardRec, cardID), ZeroMerchant, ZeroMerchant, <<>>)
    IN  /\ p.pc = "cleanLastRetry"
        /\ Step(w, IF HasCard(cardID)
                   THEN Logged([p EXCEPT !.pc = "cleanLastRetryUpdate",
                                         !.blockedCard = ReadBlockedCard(cardID),
                                         !.seenCard = SeqOf(CardRec, cardID)], c)
                   ELSE Finish(Logged(p, c), ErrNil))
        /\ UNCHANGED <<blockedCardTable, cardRetryTable, clock, started, ticks,
                       seqno, blockSucceeded, status, transport>>

\* cleanLastRetry: GetItem of the BlockedCard; any error fails the command
cleanLastRetry(w) ==
    LET p == proc[w]
        cardID == p.request.cardID
        c == Call("GetBlockedCard", cardID, HasCard(cardID), NoVersion,
                  StoredCardVersion(cardID), NoVersion, SeqOf(CardRec, cardID),
                  SeqOf(CardRec, cardID), ZeroMerchant, ZeroMerchant, <<>>)
    IN  /\ p.pc = "cleanLastRetry"
        /\ Step(w, IF HasCard(cardID)
                   THEN Logged([p EXCEPT !.pc = "cleanLastRetryUpdate",
                                         !.blockedCard = ReadBlockedCard(cardID),
                                         !.seenCard = SeqOf(CardRec, cardID)], c)
                   ELSE Finish(Logged(p, c), ErrItemNotFound))
        /\ UNCHANGED <<blockedCardTable, cardRetryTable, clock, started, ticks,
                       seqno, blockSucceeded, status, transport>>

\* cleanLastRetry: UpdateItem built by UpdateLastRetryBuilder(0, ...)
cleanLastRetryUpdate(w) ==
    LET p == proc[w]
    IN  /\ p.pc = "cleanLastRetryUpdate"
        /\ UpdateMerchant(w, "UpdateLastRetry", p.blockedCard.cardID,
                          p.request.merchantID,
                          lastRetryUpdate(0), clock)
        /\ UNCHANGED <<cardRetryTable, clock, started, ticks, blockSucceeded, status, transport>>

-----
(* Clock *)

TickSteps == {1, oneDayMiliSeconds - 1}

Tick ==
    /\ ticks < MaxTicks
    /\ \E d \in TickSteps : clock' = clock + d
    /\ ticks' = ticks + 1
    /\ UNCHANGED <<blockedCardTable, cardRetryTable, proc, last, previous, started,
                   seqno, blockSucceeded, status, transport>>

----------------------------------------------------------------------------
(* CheckCardStatus *)

CheckCardStatusResponse(blocked, blockType, hasRetries) ==
    [blocked |-> blocked, blockType |-> blockType, hasRetries |-> hasRetries]

ZeroResponse == CheckCardStatusResponse(FALSE, EmptyString, FALSE)

\* Add(24 * time.Hour), in clock units
LastRetryWindow == (24 * 60 * 60 * 1000) \div MsPerUnit

getBlockTypeTemporary(isTemporarily) == TEMPORARY

getBlockType(isTemporarily) == IF isTemporarily THEN TEMPORARY ELSE EmptyString

\* the evaluation of one merchant entry at time now, lines 90-102
EvaluateLockInfoCaseSensitive(lockInfo, now) ==
    IF lockInfo.blockType = PERMANENT
    THEN CheckCardStatusResponse(TRUE, PERMANENT, FALSE)
    ELSE CheckCardStatusResponse(lockInfo.expirationDate > now,
                                 getBlockType(lockInfo.expirationDate > now),
                                 lockInfo.lastRetry + LastRetryWindow > now)

EvaluateLockInfo(lockInfo, now) ==
    IF EqualFold(lockInfo.blockType, PERMANENT)
    THEN CheckCardStatusResponse(TRUE, PERMANENT, FALSE)
    ELSE LET currentDate == now
             isTemporarilyBlocked == lockInfo.expirationDate > currentDate
             lastRetry == lockInfo.lastRetry + LastRetryWindow
             hasRetries == lastRetry > currentDate
         IN  CheckCardStatusResponse(isTemporarilyBlocked,
                                     getBlockType(isTemporarilyBlocked), hasRetries)

\* the zero response with which CheckCardStatus fails open, or the
\* evaluation of the merchant's entry
CheckCardStatusIgnoringError(request, getErr, now) ==
    IF request.cardID = EmptyString \/ ~HasCard(request.cardID) THEN ZeroResponse
    ELSE LET blockedCardInfo == ReadBlockedCard(request.cardID)
         IN  IF request.merchantIdentifier \notin DOMAIN blockedCardInfo.blockedMerchants
             THEN ZeroResponse
             ELSE EvaluateLockInfo(
                      blockedCardInfo.blockedMerchants[request.merchantIdentifier], now)

CheckCardStatus(request, getErr, now) ==
    IF request.cardID = EmptyString THEN ZeroResponse
    ELSE IF getErr \/ ~HasCard(request.cardID) THEN ZeroResponse
    ELSE LET blockedCardInfo == ReadBlockedCard(request.cardID)
         IN  IF request.merchantIdentifier \notin DOMAIN blockedCardInfo.blockedMerchants
             THEN ZeroResponse
             ELSE EvaluateLockInfo(
                      blockedCardInfo.blockedMerchants[request.merchantIdentifier], now)

CheckCardStatusRequests ==
    {[cardID |-> c, merchantIdentifier |-> m] : c \in CardIDs, m \in Merchants}

NoStatus ==
    [asked |-> FALSE, request |-> <<>>, getErr |-> FALSE, now |-> 0,
     lockInfo |-> <<>>, response |-> ZeroResponse]

\* One status query answered from the current tables; getErr: the GetItem
\* returns an error.  lockInfo records the entry that was evaluated, if any.
CheckCardStatusQuery(request, getErr) ==
    /\ status' =
          [asked |-> TRUE, request |-> request, getErr |-> getErr, now |-> clock,
           lockInfo |->
               IF /\ request.cardID # EmptyString
                  /\ ~getErr
                  /\ HasCard(request.cardID)
                  /\ request.merchantIdentifier
                        \in DOMAIN blockedCardTable[request.cardID].blockedMerchants
               THEN <<blockedCardTable[request.cardID]
                          .blockedMerchants[request.merchantIdentifier]>>
               ELSE <<>>,
           response |-> CheckCardStatus(request, getErr, clock)]
    /\ UNCHANGED <<blockedCardTable, cardRetryTable, clock, proc, last, previous,
                   started, ticks, seqno, blockSucceeded, transport>>

----------------------------------------------------------------------------
(* Transport *)

\* blockCardQueue (messages with their receive count), its dead-letter queue,
\* the number of messages sent, and one record per run of RunLockCardDLQ
EmptyTransport == [queue |-> <<>>, deadLetter |-> <<>>, sent |-> 0, runs |-> <<>>]

----------------------------------------------------------------------------
(* Initial states *)

\* the clock reading at which the model starts
Base == 1000

MasterCardRequest == BlockCardRequest(MerchantM1, BrandMasterCard, RetryCardOperation,
                                      CardC1, ConditionalX)
VisaRequest == BlockCardRequest(MerchantM1, BrandVisa, RetryCardOperation,
                                CardC1, ConditionalX)

\* n earlier retries, gap clock units apart, the latest at Base - gap (newest first)
RetryTimes(n, gap) == [i \in 1..n |-> Base - i * gap]

\* what incrementRetry left stored after the latest of these retries
StoredRetries(n, gap, frequency) ==
    IF n = 0 THEN <<>>
    ELSE getValidRetries(Base - gap, SubSeq(RetryTimes(n, gap), 2, n), frequency)

CounterRow(request, frequency, n, gap) ==
    generateRetryKey(request, frequency) :>
        [cardID |-> request.cardID, merchantID |-> request.merchantIdentifier,
         retries |-> StoredRetries(n, gap, frequency), timeStamp |-> Base - gap]

\* The tables after n successful MasterCard retries of (C1, M1), none of which
\* reached a limit: both counters and lastRetry written by the latest retry.
MasterCardHistory(n, gap) ==
    [cards |-> CardC1 :> [timeStamp |-> Base - gap,
                          blockedMerchants |-> MerchantM1 :> lastRetryUpdate(Base - gap)],
     retries |-> CounterRow(MasterCardRequest, DailyFrequency, n, gap)
                 @@ CounterRow(MasterCardRequest, MonthlyFrequency, n, gap)]

\* The tables after n successful Visa retries of (C1, M1, X) below the limit:
\* the BlockedCard created by the first of them and never updated.
VisaHistory(n, gap) ==
    [cards |-> CardC1 :> [timeStamp |-> Base - n * gap, blockedMerchants |-> EmptyMap],
     retries |-> CounterRow(VisaRequest, MonthlyFrequency, n, gap)]

EmptyHistory == [cards |-> <<>>, retries |-> <<>>]

\* one retry (MasterCard daily, Visa monthly) or two (MasterCard monthly) short
\* of a limit, so that the next commands reach limit - 1 and then the limit
Histories ==
    {EmptyHistory, MasterCardHistory(5, 1), MasterCardHistory(33, 5), VisaHistory(13, 1)}

Init ==
    /\ \E h \in Histories :
          /\ blockedCardTable = h.cards
          /\ cardRetryTable = h.retries
    /\ clock = Base
    /\ proc = [w \in Workers |-> IdleProc]
    /\ last = IdleProc
    /\ previous = IdleProc
    /\ started = 0
    /\ ticks = 0
    /\ seqno = <<>>
    /\ blockSucceeded = {}
    /\ status = NoStatus
    /\ transport = EmptyTransport

Next ==
    \/ \E w \in Workers, request \in BlockCardRequests : ProcessBlock(w, request)
    \/ \E w \in Workers : generateNewBlockedCard(w)
    \/ \E w \in Workers : getRetry(w)
    \/ \E w \in Workers : incrementRetry(w)
    \/ \E w \in Workers : blockCard(w)
    \/ \E w \in Workers : updateLastRetry(w)
    \/ \E w \in Workers, request \in RestoreDailyRequests : RestoreDailyRetries(w, request)
    \/ \E w \in Workers : deleteRetry(w)
    \/ \E w \in Workers : cleanLastRetry(w)
    \/ \E w \in Workers : cleanLastRetryUpdate(w)
    \/ Tick

\* commands of any kind, delivered at any time and running concurrently
Spec == Init /\ [][Next]_vars

\* the same commands delivered one at a time (batch size 1, one invocation)
NextSeq ==
    \/ \E request \in BlockCardRequests : ProcessBlock(1, request)
    \/ generateNewBlockedCard(1)
    \/ getRetry(1)
    \/ incrementRetry(1)
    \/ blockCard(1)
    \/ updateLastRetry(1)
    \/ \E request \in RestoreDailyRequests : RestoreDailyRetries(1, request)
    \/ deleteRetry(1)
    \/ cleanLastRetry(1)
    \/ cleanLastRetryUpdate(1)
    \/ Tick

SpecSeq == Init /\ [][NextSeq]_vars

----------------------------------------------------------------------------
(* The status evaluator on stored entries of every shape *)

permanentLower == <<"p","e","r","m","a","n","e","n","t">>
permanentMixed == <<"P","e","r","m","a","n","e","n","t">>

StatusBlockTypes == {PERMANENT, permanentLower, permanentMixed, TEMPORARY, EmptyString}
StatusExpirationDates == {0, Base - 1, Base, Base + 1, Base + ExpirationDelta}
StatusLastRetries == {0, Base - LastRetryWindow, Base - LastRetryWindow + 1, Base}

StatusTables ==
    {<<>>, CardC1 :> [timeStamp |-> Base, blockedMerchants |-> EmptyMap]}
    \cup {CardC1 :> [timeStamp |-> Base,
                     blockedMerchants |-> MerchantM1 :> BlockedMerchant(e, b, l)] :
            e \in StatusExpirationDates, b \in StatusBlockTypes, l \in StatusLastRetries}

InitStatus ==
    /\ blockedCardTable \in StatusTables
    /\ cardRetryTable = <<>>
    /\ clock = Base
    /\ proc = [w \in Workers |-> IdleProc]
    /\ last = IdleProc
    /\ previous = IdleProc
    /\ started = 0
    /\ ticks = 0
    /\ seqno = <<>>
    /\ blockSucceeded = {}
    /\ status = NoStatus
    /\ transport = EmptyTransport

NextStatus ==
    \/ \E request \in CheckCardStatusRequests, getErr \in BOOLEAN :
          CheckCardStatusQuery(request, getErr)
    \/ Tick

SpecStatus == InitStatus /\ [][NextStatus]_vars

----------------------------------------------------------------------------
(* Command bodies of every shape, delivered one at a time *)

ConditionalDaily == <<"d","a","i","l","y">>

VisaDailyRequest == BlockCardRequest(MerchantM1, BrandVisa, RetryCardOperation,
                                     CardC1, ConditionalDaily)

\* The tables after n successful Visa retries of (C1, M1) whose conditional
\* is the string "daily": the monthly counter C1-M1-daily-monthly.
VisaDailyHistory(n, gap) ==
    [cards |-> CardC1 :> [timeStamp |-> Base - n * gap, blockedMerchants |-> EmptyMap],
     retries |-> CounterRow(VisaDailyRequest, MonthlyFrequency, n, gap)]

InputHistories == {EmptyHistory, VisaDailyHistory(3, 1)}

\* bodies that parse but lack "brand" or "operation" (omitempty string fields
\* of BlockCardRequest: an absent field unmarshals to "")
IncompleteBlockCardRequests ==
    {BlockCardRequest(MerchantM1, EmptyString, RetryCardOperation, CardC1, ConditionalX),
     BlockCardRequest(MerchantM1, BrandMasterCard, EmptyString, CardC1, ConditionalX)}

\* a body that parses but lacks "cardId"
IncompleteRestoreDailyRequests == {RestoreDailyRequest(EmptyString, MerchantM1)}

ErrUnmarshal == "json.Unmarshal error"

\* ProcessBlock / RestoreDailyRetries: jsonUnmarshalCaller returns an error
\* and the handler returns it before any storage call
UnmarshalError(w) ==
    /\ Free(w)
    /\ started' = started + 1
    /\ Step(w, Finish([IdleProc EXCEPT !.kind = "unparsed"], ErrUnmarshal))
    /\ UNCHANGED <<blockedCardTable, cardRetryTable, clock, ticks, seqno,
                   blockSucceeded, status, transport>>

InitInput ==
    /\ \E h \in InputHistories :
          /\ blockedCardTable = h.cards
          /\ cardRetryTable = h.retries
    /\ clock = Base
    /\ proc = [w \in Workers |-> IdleProc]
    /\ last = IdleProc
    /\ previous = IdleProc
    /\ started = 0
    /\ ticks = 0
    /\ seqno = <<>>
    /\ blockSucceeded = {}
    /\ status = NoStatus
    /\ transport = EmptyTransport

NextInput ==
    \/ \E request \in BlockCardRequests \cup IncompleteBlockCardRequests :
          ProcessBlock(1, request)
    \/ UnmarshalError(1)
    \/ generateNewBlockedCard(1)
    \/ getRetry(1)
    \/ incrementRetry(1)
    \/ blockCard(1)
    \/ updateLastRetry(1)
    \/ \E request \in RestoreDailyRequests \cup IncompleteRestoreDailyRequests :
          RestoreDailyRetries(1, request)
    \/ deleteRetry(1)
    \/ cleanLastRetry(1)
    \/ cleanLastRetryUpdate(1)
    \/ Tick

SpecInput == InitInput /\ [][NextInput]_vars

----------------------------------------------------------------------------
(* Storage calls that return an error *)

ErrStorage == "storage error"

\* the gateway call an invocation is about to make
PendingOp(p) ==
    CASE p.pc = "generateNewBlockedCard" -> "PutBlockedCard"
      [] p.pc = "getRetry"               -> "GetRetry"
      [] p.pc = "incrementRetry"         -> "IncrementRetry"
      [] p.pc = "blockCard"              -> "UpdateBlockCard"
      [] p.pc = "updateLastRetry"        -> "UpdateLastRetry"
      [] p.pc = "deleteRetry"            -> "DeleteCardRetry"
      [] p.pc = "cleanLastRetry"         -> "GetBlockedCard"
      [] p.pc = "cleanLastRetryUpdate"   -> "UpdateLastRetry"

PendingKey(p) ==
    CASE p.pc \in {"getRetry", "incrementRetry"} ->
             generateRetryKey(p.request, Frequencies(p.request.franchise)[p.fi])
      [] p.pc = "deleteRetry" -> p.out[p.fi].retryKey
      [] OTHER -> p.request.cardID

\* a call that returned an error (network, auth, throttling) and wrote nothing
FailedCall(op, key) ==
    [Call(op, key, FALSE, NoVersion, NoVersion, NoVersion, 0, 0,
          ZeroMerchant, ZeroMerchant, <<>>) EXCEPT !.fault = TRUE]

\* the pending gateway call of invocation w returns an error: every call site
\* of ProcessBlock and RestoreDailyRetries returns it to the caller
StorageError(w) ==
    LET p == proc[w]
    IN  /\ p.pc \notin {"idle", "done"}
        /\ Step(w, Finish(Logged(p, FailedCall(PendingOp(p), PendingKey(p))), ErrStorage))
        /\ UNCHANGED <<blockedCardTable, cardRetryTable, clock, started, ticks,
                       seqno, blockSucceeded, status, transport>>

\* ProcessBlock: bs.getBlockedCard returns an error other than ErrItemNotFound
ProcessBlockStorageError(w, request) ==
    LET p == [IdleProc EXCEPT !.kind = "block", !.request = request]
    IN  /\ Free(w)
        /\ ~EmptyRequiredParams(request)
        /\ started' = started + 1
        /\ Step(w, Finish(Logged(p, FailedCall("GetBlockedCard", request.cardID)),
                           ErrStorage))
        /\ UNCHANGED <<blockedCardTable, cardRetryTable, clock, ticks, seqno,
                       blockSucceeded, status, transport>>

\* cleanDailyRetries: rs.Dynamo.Query returns an error
RestoreStorageError(w, request) ==
    LET p == [IdleProc EXCEPT !.kind = "restore", !.request = request]
    IN  /\ Free(w)
        /\ started' = started + 1
        /\ Step(w, Finish(Logged(p, FailedCall("QueryRetries", request.cardID)),
                           ErrStorage))
        /\ UNCHANGED <<blockedCardTable, cardRetryTable, clock, ticks, seqno,
                       blockSucceeded, status, transport>>

\* The tables after n MasterCard retries of (C1, M1) the latest of which
\* reached the daily limit and applied the TEMPORARY block.
MasterCardBlockedHistory(n, gap) ==
    [cards |-> CardC1 :> [timeStamp |-> Base - gap,
                          blockedMerchants |->
                              MerchantM1 :> generateBlockUpdate(RetryCardOperation,
                                                                Base - gap)],
     retries |-> CounterRow(MasterCardRequest, DailyFrequency, n, gap)
                 @@ CounterRow(MasterCardRequest, MonthlyFrequency, n, gap)]

FaultHistories == {EmptyHistory, MasterCardHistory(5, 1), MasterCardBlockedHistory(7, 1)}

\* the block commands of the alphabet that reach the storage
BlockOperationRequests ==
    {request \in BlockCardRequests :
        /\ EqualFold(request.operation, BlockCardOperation)
        /\ ~EmptyRequiredParams(request)}

InitFault ==
    /\ \E h \in FaultHistories :
          /\ blockedCardTable = h.cards
          /\ cardRetryTable = h.retries
    /\ clock = Base
    /\ proc = [w \in Workers |-> IdleProc]
    /\ last = IdleProc
    /\ previous = IdleProc
    /\ started = 0
    /\ ticks = 0
    /\ seqno = <<>>
    /\ blockSucceeded = {}
    /\ status = NoStatus
    /\ transport = EmptyTransport

NextFault ==
    \/ \E request \in BlockCardRequests : ProcessBlock(1, request)
    \/ \E request \in BlockCardRequests : ProcessBlockStorageError(1, request)
    \/ generateNewBlockedCard(1)
    \/ getRetry(1)
    \/ incrementRetry(1)
    \/ blockCard(1)
    \/ updateLastRetry(1)
    \/ \E request \in RestoreDailyRequests : RestoreDailyRetries(1, request)
    \/ \E request \in RestoreDailyRequests : RestoreStorageError(1, request)
    \/ deleteRetry(1)
    \/ cleanLastRetry(1)
    \/ cleanLastRetryUpdate(1)
    \/ StorageError(1)
    \/ \E request \in BlockOperationRequests : ProcessBlock(2, request)
    \/ generateNewBlockedCard(2)
    \/ blockCard(2)

\* a command any storage call of which may return an error, alone or with a
\* block command running at the same time; the commands follow each other
\* within the same hour
SpecFault == InitFault /\ [][NextFault]_vars

----------------------------------------------------------------------------
(* Retry commands whose identifiers contain the separator of the key *)

MerchantM1X == <<"M","1","-","X">>
CardC1M1 == <<"C","1","-","M","1">>
MerchantX == <<"X">>

\* retry commands of both key shapes; cardId, merchantIdentifier and
\* conditional are free strings of the body, "-" included
KeyRequests ==
    {MasterCardRequest,
     VisaRequest,
     BlockCardRequest(MerchantM1X, BrandMasterCard, RetryCardOperation, CardC1,
                      EmptyString),
     BlockCardRequest(MerchantX, BrandMasterCard, RetryCardOperation, CardC1M1,
                      EmptyString)}

InitKey ==
    /\ blockedCardTable = EmptyHistory.cards
    /\ cardRetryTable = EmptyHistory.retries
    /\ clock = Base
    /\ proc = [w \in Workers |-> IdleProc]
    /\ last = IdleProc
    /\ previous = IdleProc
    /\ started = 0
    /\ ticks = 0
    /\ seqno = <<>>
    /\ blockSucceeded = {}
    /\ status = NoStatus
    /\ transport = EmptyTransport

NextKey ==
    \/ \E request \in KeyRequests : ProcessBlock(1, request)
    \/ generateNewBlockedCard(1)
    \/ getRetry(1)
    \/ incrementRetry(1)
    \/ updateLastRetry(1)
    \/ Tick

\* retry commands on empty tables, one at a time
SpecKey == InitKey /\ [][NextKey]_vars

----------------------------------------------------------------------------
(* Retry commands that reach a limit, and status queries after them *)

\* one retry short of the MasterCard daily limit, two short of it, and one
\* short of the Visa monthly limit
ExpiryHistories ==
    {MasterCardHistory(6, 1), MasterCardHistory(5, 1), VisaHistory(14, 1)}

ExpiryRequests == {MasterCardRequest, VisaRequest}

\* the waits between a command and a status query: one hour less than the
\* day of a block, and the whole day
ExpirySteps == {oneDayMiliSeconds - 1, oneDayMiliSeconds}

TickDay ==
    /\ ticks < MaxTicks
    /\ \E d \in ExpirySteps : clock' = clock + d
    /\ ticks' = ticks + 1
    /\ UNCHANGED <<blockedCardTable, cardRetryTable, proc, last, previous, started,
                   seqno, blockSucceeded, status, transport>>

InitExpiry ==
    /\ \E h \in ExpiryHistories :
          /\ blockedCardTable = h.cards
          /\ cardRetryTable = h.retries
    /\ clock = Base
    /\ proc = [w \in Workers |-> IdleProc]
    /\ last = IdleProc
    /\ previous = IdleProc
    /\ started = 0
    /\ ticks = 0
    /\ seqno = <<>>
    /\ blockSucceeded = {}
    /\ status = NoStatus
    /\ transport = EmptyTransport

NextExpiry ==
    \/ \E request \in ExpiryRequests : ProcessBlock(1, request)
    \/ getRetry(1)
    \/ incrementRetry(1)
    \/ blockCard(1)
    \/ updateLastRetry(1)
    \/ \E request \in CheckCardStatusRequests :
          CheckCardStatusQuery(request, FALSE)
    \/ TickDay

\* retry commands one at a time on counters close to their limit, with
\* status queries at any time
SpecExpiry == InitExpiry /\ [][NextExpiry]_vars

----------------------------------------------------------------------------
(* Commands of two merchants on the same card *)

MerchantM2 == <<"M","2">>

\* a block and a MasterCard retry of (C1, M1), a block of (C1, M2)
MerchantRequests ==
    {BlockCardRequest(MerchantM1, BrandVisa, BlockCardOperation, CardC1, ConditionalX),
     MasterCardRequest,
     BlockCardRequest(MerchantM2, BrandVisa, BlockCardOperation, CardC1, ConditionalX)}

InitMerchants ==
    /\ \E h \in {EmptyHistory, MasterCardHistory(5, 1)} :
          /\ blockedCardTable = h.cards
          /\ cardRetryTable = h.retries
    /\ clock = Base
    /\ proc = [w \in Workers |-> IdleProc]
    /\ last = IdleProc
    /\ previous = IdleProc
    /\ started = 0
    /\ ticks = 0
    /\ seqno = <<>>
    /\ blockSucceeded = {}
    /\ status = NoStatus
    /\ transport = EmptyTransport

NextMerchants ==
    \/ \E w \in Workers, request \in MerchantRequests : ProcessBlock(w, request)
    \/ \E w \in Workers : generateNewBlockedCard(w)
    \/ \E w \in Workers : getRetry(w)
    \/ \E w \in Workers : incrementRetry(w)
    \/ \E w \in Workers : blockCard(w)
    \/ \E w \in Workers : updateLastRetry(w)
    \/ \E w \in Workers, request \in RestoreDailyRequests : RestoreDailyRetries(w, request)
    \/ \E w \in Workers : deleteRetry(w)
    \/ \E w \in Workers : cleanLastRetry(w)
    \/ \E w \in Workers : cleanLastRetryUpdate(w)

\* commands of two merchants of one card, running concurrently
SpecMerchants == InitMerchants /\ [][NextMerchants]_vars

----------------------------------------------------------------------------
(* Retry commands on counters whose timestamps lie at the ends of the windows *)

\* how long before Base the earlier retries of (C1, M1) were made: within the
\* day, one hour less than a day, a day, one hour less than 30 days, 30 days
WindowAges ==
    {1, oneDayMiliSeconds - 1, oneDayMiliSeconds,
     oneMonthMiliSeconds - 1, oneMonthMiliSeconds}

RECURSIVE Descending(_)
Descending(S) ==
    IF S = {} THEN <<>>
    ELSE LET newest == CHOOSE t \in S : \A u \in S : u <= t
         IN  <<newest>> \o Descending(S \ {newest})

\* The tables after successful MasterCard retries of (C1, M1) made at the
\* given times: each counter as the latest of them stored it.
WindowHistory(times) ==
    IF times = <<>> THEN EmptyHistory
    ELSE LET row(frequency) ==
                 generateRetryKey(MasterCardRequest, frequency) :>
                     [cardID |-> CardC1, merchantID |-> MerchantM1,
                      retries |-> getValidRetries(Head(times), Tail(times), frequency),
                      timeStamp |-> Head(times)]
         IN  [cards |-> CardC1 :> [timeStamp |-> Head(times),
                                   blockedMerchants |->
                                       MerchantM1 :> lastRetryUpdate(Head(times))],
              retries |-> row(DailyFrequency) @@ row(MonthlyFrequency)]

WindowHistories ==
    {WindowHistory(Descending({Base - a : a \in A})) : A \in SUBSET WindowAges}

InitWindow ==
    /\ \E h \in WindowHistories :
          /\ blockedCardTable = h.cards
          /\ cardRetryTable = h.retries
    /\ clock = Base
    /\ proc = [w \in Workers |-> IdleProc]
    /\ last = IdleProc
    /\ previous = IdleProc
    /\ started = 0
    /\ ticks = 0
    /\ seqno = <<>>
    /\ blockSucceeded = {}
    /\ status = NoStatus
    /\ transport = EmptyTransport

NextWindow ==
    \/ \E request \in ExpiryRequests : ProcessBlock(1, request)
    \/ generateNewBlockedCard(1)
    \/ getRetry(1)
    \/ incrementRetry(1)
    \/ updateLastRetry(1)
    \/ Tick

\* retry commands one at a time, each pruning the lists it read
SpecWindow == InitWindow /\ [][NextWindow]_vars

----------------------------------------------------------------------------
(* blockCardQueue, its dead-letter queue and RunLockCardDLQ *)

\* deadLetterQueue.maxReceiveCount of blockCardQueue
maxReceiveCount == 3

ZeroBlockCardRequest ==
    BlockCardRequest(EmptyString, EmptyString, EmptyString, EmptyString, EmptyString)

\* a message body: whether json.Unmarshal into types.BlockCardRequest
\* succeeds, and the request it yields
Body(parses, request) == [parses |-> parses, request |-> request]

\* a body that is not JSON, two retry commands, and a command without cardId
Bodies ==
    {Body(FALSE, ZeroBlockCardRequest),
     Body(TRUE, VisaRequest),
     Body(TRUE, MasterCardRequest),
     Body(TRUE, BlockCardRequest(MerchantM1, BrandVisa, BlockCardOperation,
                                 EmptyString, ConditionalX))}

\* a producer sends one command to blockCardQueue
SendMessage(body) ==
    /\ transport.sent < MaxCmds
    /\ transport' = [transport EXCEPT
                          !.queue = Append(@, [body |-> body, receiveCount |-> 0]),
                          !.sent = @ + 1]
    /\ UNCHANGED <<blockedCardTable, cardRetryTable, clock, proc, last, previous,
                   started, ticks, seqno, blockSucceeded, status>>

\* ProcessBlock while the storage is unavailable: the body does not parse,
\* or the cardID is empty, or bs.getBlockedCard returns the storage error
ProcessBlockOutage(body) ==
    LET p == [IdleProc EXCEPT !.kind = IF body.parses THEN "block" ELSE "unparsed",
                              !.request = body.request]
    IN  IF ~body.parses THEN Finish(p, ErrUnmarshal)
        ELSE IF EmptyRequiredParams(body.request) THEN Finish(p, ErrNil)
        ELSE Finish(Logged(p, FailedCall("GetBlockedCard", body.request.cardID)),
                    ErrStorage)

\* the queue after one receive of its first message: deleted when the
\* handler returned nil, moved to the dead-letter queue after the
\* maxReceiveCount-th failed receive, visible again otherwise
AfterReceive(err) ==
    LET m == Head(transport.queue)
        n == m.receiveCount + 1
    IN  IF err = ErrNil
        THEN [transport EXCEPT !.queue = Tail(@)]
        ELSE IF n >= maxReceiveCount
        THEN [transport EXCEPT !.queue = Tail(@),
                               !.deadLetter = Append(@, [m EXCEPT !.receiveCount = n])]
        ELSE [transport EXCEPT !.queue = <<[m EXCEPT !.receiveCount = n]>> \o Tail(@)]

\* one delivery (batch size 1) of the first message of blockCardQueue to the
\* blockCard lambda, during a storage outage
ReceiveBlockCard ==
    /\ transport.queue # <<>>
    /\ proc[1].pc = "idle"
    /\ LET q == ProcessBlockOutage(Head(transport.queue).body)
       IN  /\ Step(1, q)
           /\ transport' = AfterReceive(q.err)
    /\ started' = started + 1
    /\ UNCHANGED <<blockedCardTable, cardRetryTable, clock, ticks, seqno,
                   blockSucceeded, status>>

\* RunLockCardDLQ on a body: (true, nil) after one rollbar.Error naming
\* Franchise and CardID, or (false, err) when json.Unmarshal fails; the
\* handler has no storage client
LockCardDLQRun(body) ==
    IF body.parses
    THEN [body |-> body, ok |-> TRUE,
          notifications |-> <<[franchise |-> body.request.franchise,
                               cardID |-> body.request.cardID]>>,
          storageCalls |-> 0]
    ELSE [body |-> body, ok |-> FALSE, notifications |-> <<>>, storageCalls |-> 0]

\* one delivery of the first message of blockCardDeadLetterQueue to the
\* blockCardDLQ lambda: deleted when the handler returns nil, kept otherwise
RunLockCardDLQ ==
    /\ transport.deadLetter # <<>>
    /\ Len(transport.runs) < MaxCmds
    /\ LET run == LockCardDLQRun(Head(transport.deadLetter).body)
       IN  transport' = [transport EXCEPT
                             !.runs = Append(@, run),
                             !.deadLetter = IF run.ok THEN Tail(@) ELSE @]
    /\ UNCHANGED <<blockedCardTable, cardRetryTable, clock, proc, last, previous,
                   started, ticks, seqno, blockSucceeded, status>>

InitDLQ ==
    /\ blockedCardTable = EmptyHistory.cards
    /\ cardRetryTable = EmptyHistory.retries
    /\ clock = Base
    /\ proc = [w \in Workers |-> IdleProc]
    /\ last = IdleProc
    /\ previous = IdleProc
    /\ started = 0
    /\ ticks = 0
    /\ seqno = <<>>
    /\ blockSucceeded = {}
    /\ status = NoStatus
    /\ transport = EmptyTransport

NextDLQ ==
    \/ \E body \in Bodies : SendMessage(body)
    \/ ReceiveBlockCard
    \/ RunLockCardDLQ
    \/ Tick

\* commands delivered by blockCardQueue while the storage is unavailable
SpecDLQ == InitDLQ /\ [][NextDLQ]_vars

----------------------------------------------------------------------------
(* blockCardQueue and restoreRetryQueue redelivering the commands that failed *)

\* the commands sent before the first delivery, each a message of
\* blockCardQueue or restoreRetryQueue not yet received, and the tables they
\* meet: two retries of an unknown card, two blocks of it, a block and a
\* body that is not JSON, and a retry and a Restore of a pair with five
\* retries within the day
QueuedCommands ==
    LET Message(queueName, body) ==
            [queue |-> queueName, body |-> body, receiveCount |-> 0]
        visa == Message("blockCardQueue", Body(TRUE, VisaRequest))
        block == Message("blockCardQueue",
                         Body(TRUE, BlockCardRequest(MerchantM1, BrandVisa,
                                                     BlockCardOperation, CardC1,
                                                     ConditionalX)))
        malformed == Message("blockCardQueue", Body(FALSE, ZeroBlockCardRequest))
        retry == Message("blockCardQueue", Body(TRUE, MasterCardRequest))
        restore == Message("restoreRetryQueue",
                           Body(TRUE, RestoreDailyRequest(CardC1, MerchantM1)))
    IN  {[history |-> EmptyHistory, queue |-> <<visa, visa>>],
         [history |-> EmptyHistory, queue |-> <<block, block>>],
         [history |-> EmptyHistory, queue |-> <<block, malformed>>],
         [history |-> MasterCardHistory(5, 1), queue |-> <<retry, restore>>]}

\* the transport settles a returned invocation before anything else happens:
\* no invocation that has returned still holds its message
Settled ==
    \A w \in Workers : ~(w \in DOMAIN transport.inFlight /\ proc[w].pc = "idle")

\* The event source hands the i-th visible message (batch size 1) to a free
\* invocation, which runs its handler up to the first storage call (or to
\* the error of json.Unmarshal); the receive is counted and the message is
\* invisible while it is processed.
ReceiveCommand(w, i) ==
    LET m == transport.queue[i]
        received == [m EXCEPT !.receiveCount = @ + 1]
        entries == IF ~m.body.parses
                   THEN {Finish([IdleProc EXCEPT !.kind = "unparsed"], ErrUnmarshal)}
                   ELSE IF m.queue = "blockCardQueue"
                   THEN {ProcessBlockLoad(m.body.request)}
                   ELSE {RestoreDailyQuery(m.body.request, order) :
                            order \in Orders(QueryRetries(m.body.request.cardID,
                                                          m.body.request.merchantID))}
    IN  /\ Settled
        /\ proc[w].pc = "idle"
        /\ \A v \in Workers : v < w => proc[v].pc # "idle"
        /\ transport' =
              [transport EXCEPT
                  !.queue = SubSeq(@, 1, i - 1) \o SubSeq(@, i + 1, Len(@)),
                  !.inFlight = (w :> received) @@ @]
        /\ \E q \in entries :
              IF q.pc = "done"
              THEN /\ last' = q
                   /\ previous' = last
                   /\ UNCHANGED proc
              ELSE /\ proc' = [proc EXCEPT ![w] = q]
                   /\ UNCHANGED <<last, previous>>
        /\ started' = started + 1
        /\ UNCHANGED <<blockedCardTable, cardRetryTable, clock, ticks, seqno,
                       blockSucceeded, status>>

\* After the handler of invocation w returned: the message is deleted when
\* it returned nil; after an error it goes to the dead-letter queue when it
\* has been received maxReceiveCount times, and becomes visible again
\* otherwise.
ReleaseCommand(w) ==
    LET m == transport.inFlight[w]
        others == [v \in DOMAIN transport.inFlight \ {w} |-> transport.inFlight[v]]
    IN  /\ w \in DOMAIN transport.inFlight
        /\ proc[w].pc = "idle"
        /\ transport' =
              IF last.err = ErrNil
              THEN [transport EXCEPT !.inFlight = others, !.deleted = @ + 1]
              ELSE IF m.receiveCount >= maxReceiveCount
              THEN [transport EXCEPT !.inFlight = others,
                                     !.deadLetter = Append(@, m)]
              ELSE [transport EXCEPT !.inFlight = others, !.queue = Append(@, m)]
        /\ UNCHANGED <<blockedCardTable, cardRetryTable, clock, proc, last, previous,
                       started, ticks, seqno, blockSucceeded, status>>

\* the clock moves on by one unit between two steps
Moment ==
    /\ ticks < MaxTicks
    /\ clock' = clock + 1
    /\ ticks' = ticks + 1
    /\ UNCHANGED <<blockedCardTable, cardRetryTable, proc, last, previous, started,
                   seqno, blockSucceeded, status, transport>>

\* one storage call of the handler that invocation w is running
RunCommand(w) ==
    /\ Settled
    /\ \/ generateNewBlockedCard(w)
       \/ getRetry(w)
       \/ incrementRetry(w)
       \/ blockCard(w)
       \/ updateLastRetry(w)
       \/ deleteRetry(w)
       \/ cleanLastRetry(w)
       \/ cleanLastRetryUpdate(w)

\* the queues with the commands sent, no message being processed and none
\* deleted yet
InitRedelivery ==
    /\ \E sent \in QueuedCommands :
          /\ blockedCardTable = sent.history.cards
          /\ cardRetryTable = sent.history.retries
          /\ transport = [queue |-> sent.queue, deadLetter |-> <<>>,
                          sent |-> Len(sent.queue), runs |-> <<>>,
                          inFlight |-> <<>>, deleted |-> 0]
    /\ clock = Base
    /\ proc = [w \in Workers |-> IdleProc]
    /\ last = IdleProc
    /\ previous = IdleProc
    /\ started = 0
    /\ ticks = 0
    /\ seqno = <<>>
    /\ blockSucceeded = {}
    /\ status = NoStatus

NextRedelivery ==
    \/ \E w \in Workers, i \in DOMAIN transport.queue : ReceiveCommand(w, i)
    \/ \E w \in Workers : ReleaseCommand(w)
    \/ \E w \in Workers : Settled /\ generateNewBlockedCard(w)
    \/ \E w \in Workers : Settled /\ getRetry(w)
    \/ \E w \in Workers : Settled /\ incrementRetry(w)
    \/ \E w \in Workers : Settled /\ blockCard(w)
    \/ \E w \in Workers : Settled /\ updateLastRetry(w)
    \/ \E w \in Workers : Settled /\ deleteRetry(w)
    \/ \E w \in Workers : Settled /\ cleanLastRetry(w)
    \/ \E w \in Workers : Settled /\ cleanLastRetryUpdate(w)
    \/ Settled /\ Moment

\* The event source delivers visible messages, the lambda runtime runs every
\* invocation to its return, and the transport settles every returned
\* invocation: while any of these can take a step, one of them does.
FairRedelivery ==
    WF_vars(\/ \E w \in Workers, i \in DOMAIN transport.queue : ReceiveCommand(w, i)
            \/ \E w \in Workers : RunCommand(w)
            \/ \E w \in Workers : ReleaseCommand(w))

\* a finite set of commands, delivered concurrently and redelivered after
\* every failure, without storage faults
SpecRedelivery == InitRedelivery /\ [][NextRedelivery]_vars /\ FairRedelivery

----------------------------------------------------------------------------
(* Properties *)

\* the commands whose history the state holds: those in flight and the last
\* one that finished
Records == {last} \cup {proc[w] : w \in Workers}
CallsOf(p) == {p.calls[i] : i \in 1..Len(p.calls)}

HasSuffix(s, suffix) ==
    Len(s) >= Len(suffix) /\ SubSeq(s, Len(s) - Len(suffix) + 1, Len(s)) = suffix

IsRetry(p) ==
    /\ p.kind = "block"
    /\ p.request.cardID # EmptyString
    /\ p.request.operation = RetryCardOperation

IsBlock(p) ==
    /\ p.kind = "block"
    /\ p.request.cardID # EmptyString
    /\ p.request.operation = BlockCardOperation

Returned(p, e) == p.pc = "done" /\ p.err = e

\* some counter the command wrote reached the limit of its franchise and frequency
ReachedLimit(p) ==
    \E c \in CallsOf(p) :
        /\ c.op = "IncrementRetry"
        /\ \/ /\ p.request.franchise = BrandMasterCard
              /\ HasSuffix(c.key, DailyFrequency)
              /\ Len(c.retries) >= 7
           \/ /\ p.request.franchise = BrandMasterCard
              /\ HasSuffix(c.key, MonthlyFrequency)
              /\ Len(c.retries) >= 35
           \/ /\ p.request.franchise = BrandVisa
              /\ HasSuffix(c.key, MonthlyFrequency)
              /\ Len(c.retries) >= 15

IssuedTemporaryBlock(p) ==
    \E c \in CallsOf(p) : c.op = "UpdateBlockCard" /\ c.value.blockType = TEMPORARY

IssuedCardUpdate(p) ==
    \E c \in CallsOf(p) : c.op \in {"UpdateBlockCard", "UpdateLastRetry"}

\* C1: a retry command whose storage calls all succeed issues the TEMPORARY
\* block update if and only if the pruned list of one of its franchise's
\* frequencies, the current timestamp included, has reached that frequency's
\* limit (MasterCard daily 7, monthly 35; Visa monthly 15).
C1_BlockIffLimitReached ==
    (IsRetry(last) /\ Returned(last, ErrNil))
        => (IssuedTemporaryBlock(last) <=> ReachedLimit(last))

\* a MasterCard retry brought the daily count to exactly 7 and blocked
C1_Witness ==
    /\ IsRetry(last) /\ Returned(last, ErrNil)
    /\ last.request.franchise = BrandMasterCard
    /\ \E c \in CallsOf(last) :
          c.op = "IncrementRetry" /\ HasSuffix(c.key, DailyFrequency) /\ Len(c.retries) = 7
    /\ \E c \in CallsOf(last) :
          c.op = "UpdateBlockCard" /\ c.ok /\ c.value.blockType = TEMPORARY

\* C2: a stored merchant entry is PERMANENT only if a block command for that
\* card and merchant succeeded earlier, and the block update of a retry
\* command writes TEMPORARY, never PERMANENT.
C2_PermanentOnlyByBlock ==
    /\ \A cardID \in DOMAIN blockedCardTable :
          \A m \in DOMAIN blockedCardTable[cardID].blockedMerchants :
              blockedCardTable[cardID].blockedMerchants[m].blockType = PERMANENT
                  => <<cardID, m>> \in blockSucceeded
    /\ \A p \in Records : \A c \in CallsOf(p) :
          (IsRetry(p) /\ c.op = "UpdateBlockCard") => c.value.blockType = TEMPORARY

\* a PERMANENT entry is stored after a successful block command
C2_Witness ==
    \E cardID \in DOMAIN blockedCardTable :
        \E m \in DOMAIN blockedCardTable[cardID].blockedMerchants :
            /\ blockedCardTable[cardID].blockedMerchants[m].blockType = PERMANENT
            /\ <<cardID, m>> \in blockSucceeded

VersionGuardedWrites == {"UpdateBlockCard", "UpdateLastRetry", "IncrementRetry"}
Writes == VersionGuardedWrites \cup {"PutBlockedCard", "DeleteCardRetry"}

\* C3: a version-guarded write succeeds only on the state of the record that
\* its command read: of two commands that read the same state of a record, at
\* most one write succeeds, and no successful write overwrites a change that
\* its command did not observe.
C3_NoLostUpdate ==
    \A p \in Records : \A c \in CallsOf(p) :
        (c.op \in VersionGuardedWrites /\ c.ok) => c.at = c.seen

\* C4: the BlockedCard of a cardID is created once: a creation never replaces
\* a stored record.
C4_CreatedOnce ==
    \A p \in Records : \A c \in CallsOf(p) :
        (c.op = "PutBlockedCard" /\ c.ok) => c.stored = NoVersion

\* C5: every write of the Engine and of the Restore pipeline that takes effect
\* carries a condition on the stored timeStamp, and that condition held.
C5_WritesGuarded ==
    \A p \in Records : \A c \in CallsOf(p) :
        (c.op \in Writes /\ c.ok)
            => \/ c.stored = NoVersion
               \/ (c.expected # NoVersion /\ c.stored = c.expected)

\* C6: every successful merchant update and counter upsert stores a timeStamp
\* strictly greater than the version its command observed.
C6_VersionStrictlyForward ==
    \A p \in Records : \A c \in CallsOf(p) :
        (c.op \in VersionGuardedWrites /\ c.ok) => c.newVersion > c.expected

\* C7: a block update (PERMANENT or TEMPORARY) leaves lastRetry of the
\* merchant at the value stored before it.
C7_BlockKeepsLastRetry ==
    \A p \in Records : \A c \in CallsOf(p) :
        (c.op = "UpdateBlockCard" /\ c.ok) => c.value.lastRetry = c.prev.lastRetry

\* C8: the lastRetry update of a MasterCard retry without overflow sets
\* lastRetry to the command's now and leaves blockType and expirationDate of
\* the merchant unchanged.
C8_LastRetryKeepsBlock ==
    \A p \in Records : \A c \in CallsOf(p) :
        (IsRetry(p) /\ c.op = "UpdateLastRetry" /\ c.ok)
            => /\ c.value.lastRetry = p.currentDate
               /\ c.value.blockType = c.prev.blockType
               /\ c.value.expirationDate = c.prev.expirationDate

\* C9: a successful Restore sets lastRetry to 0 and leaves blockType and
\* expirationDate of the merchant unchanged.
C9_RestoreKeepsBlock ==
    \A p \in Records : \A c \in CallsOf(p) :
        (p.kind = "restore" /\ c.op = "UpdateLastRetry" /\ c.ok)
            => /\ c.value.lastRetry = 0
               /\ c.value.blockType = c.prev.blockType
               /\ c.value.expirationDate = c.prev.expirationDate

PermanentSpellings == {PERMANENT, permanentLower, permanentMixed}

\* C10: for a merchant entry whose blockType is PERMANENT in any letter case,
\* CheckCardStatus returns blocked, PERMANENT, no retries, whatever the
\* expirationDate, the lastRetry and the current time.
C10_PermanentAlwaysBlocked ==
    (/\ status.asked
     /\ Len(status.lockInfo) = 1
     /\ status.lockInfo[1].blockType \in PermanentSpellings)
        => status.response = [blocked |-> TRUE, blockType |-> PERMANENT,
                              hasRetries |-> FALSE]

\* a lower-case permanent entry, expired and with a recent lastRetry, was evaluated
C10_Witness ==
    /\ status.asked
    /\ Len(status.lockInfo) = 1
    /\ status.lockInfo[1].blockType = permanentLower
    /\ status.lockInfo[1].expirationDate < status.now
    /\ status.lockInfo[1].lastRetry + LastRetryWindow > status.now
    /\ status.response.blocked

\* C11: for a merchant entry that is not PERMANENT, CheckCardStatus returns
\* blocked = (expirationDate > now), blockType TEMPORARY exactly when blocked
\* and the empty string otherwise, and hasRetries = (lastRetry + 24h > now),
\* whatever blocked is.
C11_TemporaryByDates ==
    (/\ status.asked
     /\ Len(status.lockInfo) = 1
     /\ status.lockInfo[1].blockType \notin PermanentSpellings)
        => LET entry == status.lockInfo[1]
               blocked == entry.expirationDate > status.now
           IN  status.response =
                   [blocked |-> blocked,
                    blockType |-> IF blocked THEN TEMPORARY ELSE EmptyString,
                    hasRetries |-> entry.lastRetry + oneDayMiliSeconds > status.now]

\* an expired TEMPORARY block with a lastRetry less than 24h old was answered
\* with not blocked, no block type, has retries
C11_Witness ==
    /\ status.asked
    /\ Len(status.lockInfo) = 1
    /\ status.lockInfo[1].blockType = TEMPORARY
    /\ status.lockInfo[1].expirationDate < status.now
    /\ status.lockInfo[1].lastRetry + oneDayMiliSeconds > status.now
    /\ status.response = [blocked |-> FALSE, blockType |-> EmptyString,
                          hasRetries |-> TRUE]

\* C12: CheckCardStatus answers with the zero value when cardID is empty,
\* when the read of the BlockedCard returns an error (NotFound included) and
\* when blockedMerchants has no entry for the merchant.
C12_FailOpen ==
    (/\ status.asked
     /\ \/ status.request.cardID = EmptyString
        \/ status.getErr
        \/ status.request.cardID \notin DOMAIN blockedCardTable
        \/ status.request.merchantIdentifier
               \notin DOMAIN blockedCardTable[status.request.cardID].blockedMerchants)
        => status.response = [blocked |-> FALSE, blockType |-> EmptyString,
                              hasRetries |-> FALSE]

\* the read failed for a card whose merchant entry is an unexpired TEMPORARY
\* block, and the answer was the zero value
C12_Witness ==
    /\ status.asked
    /\ status.getErr
    /\ status.request.cardID \in DOMAIN blockedCardTable
    /\ status.request.merchantIdentifier
           \in DOMAIN blockedCardTable[status.request.cardID].blockedMerchants
    /\ LET entry == blockedCardTable[status.request.cardID]
                        .blockedMerchants[status.request.merchantIdentifier]
       IN  entry.blockType = TEMPORARY /\ entry.expirationDate > status.now
    /\ status.response = [blocked |-> FALSE, blockType |-> EmptyString,
                          hasRetries |-> FALSE]

\* C13: a retry or block command whose cardID is the empty string returns
\* success without any storage call: it reads, creates, updates and deletes
\* nothing.
C13_EmptyCardIDNoStorage ==
    \A p \in Records :
        (p.kind = "block" /\ p.request.cardID = EmptyString)
            => /\ Returned(p, ErrNil)
               /\ p.calls = <<>>

\* a block command without cardID returned
C13_Witness ==
    /\ last.kind = "block"
    /\ last.request.cardID = EmptyString
    /\ last.request.operation = BlockCardOperation
    /\ Returned(last, ErrNil)

\* a counter written for the monthly frequency: its key ends in "-monthly"
IsMonthlyCounter(key) == HasSuffix(key, Dash \o MonthlyFrequency)

NoneInFlight == \A w \in Workers : proc[w].pc = "idle"

\* C14: after a Restore for (card, merchant) has succeeded with no other
\* command running, no RetryCounter of the pair whose retryKey contains
\* "daily" is stored, and the Restore has deleted no monthly RetryCounter
\* (it writes no counter, so the monthly ones keep retries and timeStamp).
C14_RestoreClearsDailyOnly ==
    (last.kind = "restore" /\ Returned(last, ErrNil) /\ NoneInFlight)
        => /\ \A key \in DOMAIN cardRetryTable :
                 (/\ cardRetryTable[key].cardID = last.request.cardID
                  /\ cardRetryTable[key].merchantID = last.request.merchantID)
                     => ~Contains(key, Daily)
           /\ \A c \in CallsOf(last) :
                 c.op = "DeleteCardRetry" => ~IsMonthlyCounter(c.key)

\* the frequency of the counter a retry key names
FrequencyOf(key) ==
    IF HasSuffix(key, DailyFrequency) THEN DailyFrequency ELSE MonthlyFrequency

\* C15: when a retry command has returned, every counter it stored has at
\* most the limit of its franchise and frequency, or the command applied a
\* TEMPORARY block; also when its card update or a later call failed.
C15_OverLimitImpliesBlocked ==
    \A p \in Records :
        (IsRetry(p) /\ p.pc = "done")
            => \A c \in CallsOf(p) :
                   (/\ c.op = "IncrementRetry"
                    /\ c.ok
                    /\ Len(c.retries) > Limits(p.request.franchise, FrequencyOf(c.key)))
                       => \E b \in CallsOf(p) :
                              /\ b.op = "UpdateBlockCard"
                              /\ b.ok
                              /\ b.value.blockType = TEMPORARY

\* the retention window of a frequency: 24h daily, 30 x 24h monthly
RetentionWindow(frequency) ==
    IF frequency = DailyFrequency THEN oneDayMiliSeconds ELSE 30 * oneDayMiliSeconds

\* the counters a retry command writes, one per frequency of its franchise
CounterKeys(request) ==
    {generateRetryKey(request, Frequencies(request.franchise)[i]) :
        i \in DOMAIN Frequencies(request.franchise)}

\* C16: after a sequence of successful retry commands, every timestamp of
\* the stored retries list of each counter of the latest command lies within
\* the retention window of its frequency relative to the latest now (a
\* timestamp exactly one window old is dropped).
C16_RetriesWithinWindow ==
    (IsRetry(last) /\ Returned(last, ErrNil) /\ NoneInFlight)
        => \A key \in CounterKeys(last.request) :
               /\ key \in DOMAIN cardRetryTable
               /\ \A i \in DOMAIN cardRetryTable[key].retries :
                     /\ cardRetryTable[key].retries[i] <= last.currentDate
                     /\ cardRetryTable[key].retries[i]
                            > last.currentDate - RetentionWindow(FrequencyOf(key))

\* a MasterCard retry found every earlier retry out of the daily window (its
\* daily list holds its own timestamp alone) and all of them inside the
\* monthly one
C16_Witness ==
    /\ IsRetry(last) /\ Returned(last, ErrNil) /\ NoneInFlight
    /\ last.request.franchise = BrandMasterCard
    /\ last.currentDate > Base
    /\ cardRetryTable[generateRetryKey(last.request, DailyFrequency)].retries
           = <<last.currentDate>>
    /\ Len(cardRetryTable[generateRetryKey(last.request, MonthlyFrequency)].retries) >= 6

\* the command found no counter stored for any of its keys
FoundNoCounter(p) ==
    \A c \in CallsOf(p) : c.op = "GetRetry" => c.stored = NoVersion

\* last is the second of two successful applications, one right after the
\* other, of the same retry command, the first of which found no counter
SameRetryTwice ==
    /\ IsRetry(previous) /\ Returned(previous, ErrNil)
    /\ IsRetry(last) /\ Returned(last, ErrNil)
    /\ last.request = previous.request
    /\ FoundNoCounter(previous)

\* C17: the same retry command applied twice in sequence to a pair without
\* counter leaves each counter with exactly the two timestamps of the two
\* applications (when the first is still within the window), and the second
\* application changes nothing of blockedMerchants but the lastRetry of the
\* merchant.
C17_TwiceGivesTwoTimestamps ==
    SameRetryTwice
        => /\ \A c \in CallsOf(last) :
                 (/\ c.op = "IncrementRetry"
                  /\ last.currentDate - previous.currentDate
                         < RetentionWindow(FrequencyOf(c.key)))
                     => c.ok /\ c.retries = <<last.currentDate, previous.currentDate>>
           /\ \A key \in CounterKeys(last.request) :
                 \E c \in CallsOf(last) : c.op = "IncrementRetry" /\ c.key = key
           /\ \A c \in CallsOf(last) :
                 /\ c.op # "PutBlockedCard"
                 /\ (c.op \in {"UpdateBlockCard", "UpdateLastRetry"} /\ c.ok)
                        => /\ c.value.blockType = c.prev.blockType
                           /\ c.value.expirationDate = c.prev.expirationDate

\* a MasterCard retry applied twice, at two different times, to an unknown
\* card: two timestamps in the daily counter, lastRetry moved from the first
\* time to the second
C17_Witness ==
    /\ SameRetryTwice
    /\ last.request.franchise = BrandMasterCard
    /\ last.currentDate > previous.currentDate
    /\ \E c \in CallsOf(previous) : c.op = "PutBlockedCard" /\ c.ok
    /\ \E c \in CallsOf(last) :
          /\ c.op = "IncrementRetry" /\ HasSuffix(c.key, DailyFrequency)
          /\ c.retries = <<last.currentDate, previous.currentDate>>
    /\ \E c \in CallsOf(last) :
          /\ c.op = "UpdateLastRetry" /\ c.ok
          /\ c.prev.lastRetry = previous.currentDate
          /\ c.value.lastRetry = last.currentDate

\* last is a Restore run right after a successful Restore of the same pair
RestoreTwice ==
    /\ previous.kind = "restore" /\ Returned(previous, ErrNil)
    /\ last.kind = "restore" /\ last.pc = "done"
    /\ last.request = previous.request

\* C18: a Restore run right after a successful Restore of the same pair
\* succeeds, finds and deletes no RetryCounter, and writes the merchant entry
\* it found (lastRetry 0) back unchanged.
C18_RestoreIdempotent ==
    RestoreTwice
        => /\ Returned(last, ErrNil)
           /\ Len(last.out) = 0
           /\ \A c \in CallsOf(last) :
                 /\ c.op \in {"QueryRetries", "GetBlockedCard", "UpdateLastRetry"}
                 /\ c.op = "UpdateLastRetry"
                       => c.ok /\ c.value = c.prev /\ c.value.lastRetry = 0

\* the first Restore deleted a counter and reset a lastRetry that was set
C18_Witness ==
    /\ RestoreTwice
    /\ \E c \in CallsOf(previous) : c.op = "DeleteCardRetry"
    /\ \E c \in CallsOf(previous) :
          c.op = "UpdateLastRetry" /\ c.ok /\ c.prev.lastRetry > 0
    /\ \E c \in CallsOf(last) : c.op = "UpdateLastRetry" /\ c.ok

\* ErrItemNotFound of a read of ProcessBlock: the record is created instead
NotFoundRead(p, c) ==
    /\ p.kind = "block"
    /\ c.op \in {"GetBlockedCard", "GetRetry"}
    /\ ~c.ok /\ ~c.fault

\* the error a failed call returns
ErrorOf(c) ==
    IF c.fault THEN ErrStorage
    ELSE IF c.op \in {"GetBlockedCard", "GetRetry"} THEN ErrItemNotFound
    ELSE ErrConditionalCheckFailed

\* C19: a storage call that returns an error (a fault or a failed condition;
\* ErrItemNotFound of a read of a retry/block command excepted) is the last
\* storage call of its command, which returns that error.
C19_StorageErrorEndsCommand ==
    \A p \in Records : \A i \in DOMAIN p.calls :
        (~p.calls[i].ok /\ ~NotFoundRead(p, p.calls[i]))
            => /\ i = Len(p.calls)
               /\ Returned(p, ErrorOf(p.calls[i]))

\* a command that had written a counter when a later call failed
C19_Witness ==
    /\ Returned(last, ErrStorage)
    /\ Len(last.calls) > 1
    /\ last.calls[Len(last.calls)].fault
    /\ last.calls[Len(last.calls)].op \in Writes
    /\ \E c \in CallsOf(last) : c.op = "IncrementRetry" /\ c.ok

\* the body of the command did not parse or lacks a required field
MalformedCommand(p) ==
    \/ p.kind = "unparsed"
    \/ /\ p.kind = "block"
       /\ \/ p.request.merchantIdentifier = EmptyString
          \/ p.request.franchise = EmptyString
          \/ p.request.operation = EmptyString
    \/ /\ p.kind = "restore"
       /\ \/ p.request.cardID = EmptyString
          \/ p.request.merchantID = EmptyString

\* C20: a command whose body does not parse or lacks a required field
\* returns an error and no storage call of it writes anything.
C20_MalformedFailsWithoutWrite ==
    \A p \in Records :
        MalformedCommand(p)
            => /\ p.pc = "done" => p.err # ErrNil
               /\ \A c \in CallsOf(p) : ~(c.op \in Writes /\ c.ok)

\* the fields of a retry request that identify its counter of a frequency
KeyFields(request, frequency) ==
    <<request.cardID, request.merchantIdentifier, frequency,
      IF EqualFold(request.franchise, BrandMasterCard) THEN EmptyString
      ELSE request.conditional>>

\* the counters a retry command addresses: (key, identifying fields)
CountersOf(p) ==
    {<<generateRetryKey(p.request, Frequencies(p.request.franchise)[i]),
       KeyFields(p.request, Frequencies(p.request.franchise)[i])>> :
        i \in DOMAIN Frequencies(p.request.franchise)}

\* C21: two retry commands address the same retryKey only when they agree on
\* cardID, merchantID, frequency and (other than MasterCard) conditional.
C21_RetryKeyInjective ==
    \A p \in Records, q \in {previous} \cup Records :
        (IsRetry(p) /\ IsRetry(q))
            => \A a \in CountersOf(p), b \in CountersOf(q) :
                  a[1] = b[1] => a[2] = b[2]

\* C22: no step removes a stored BlockedCard, and no step removes a
\* merchantID from the blockedMerchants of a stored BlockedCard.
C22_CardAndMerchantsStay ==
    [][\A cardID \in DOMAIN blockedCardTable :
          /\ cardID \in DOMAIN blockedCardTable'
          /\ DOMAIN blockedCardTable[cardID].blockedMerchants
                \subseteq DOMAIN blockedCardTable'[cardID].blockedMerchants]_vars

\* the successful TEMPORARY block updates of the command that finished last
TemporaryBlocksOf(p) ==
    {c \in CallsOf(p) :
        c.op = "UpdateBlockCard" /\ c.ok /\ c.value.blockType = TEMPORARY}

\* the status query evaluated the merchant entry that block update c wrote
EvaluatedEntryOf(c) ==
    /\ status.asked /\ ~status.getErr
    /\ status.request.cardID = last.request.cardID
    /\ status.request.merchantIdentifier = last.request.merchantIdentifier
    /\ status.lockInfo = <<c.value>>
    /\ status.now >= c.newVersion

\* C23: the TEMPORARY block a retry command applied at time t stores
\* expirationDate t + 24h; while no further command runs the entry stays
\* stored, and a status query at time now answers blocked TEMPORARY when
\* now < t + 24h and not blocked when now >= t + 24h.
C23_TemporaryBlockExpires ==
    (IsRetry(last) /\ NoneInFlight)
        => \A c \in TemporaryBlocksOf(last) :
              /\ c.value.expirationDate = c.newVersion + oneDayMiliSeconds
              /\ StoredMerchant(last.request.cardID, last.request.merchantIdentifier)
                    = c.value
              /\ EvaluatedEntryOf(c)
                    => IF status.now < c.newVersion + oneDayMiliSeconds
                       THEN status.response.blocked
                            /\ status.response.blockType = TEMPORARY
                       ELSE ~status.response.blocked
                            /\ status.response.blockType = EmptyString

\* a query exactly 24h after the block: not blocked, the entry still stored
C23_Witness ==
    /\ IsRetry(last) /\ NoneInFlight
    /\ \E c \in TemporaryBlocksOf(last) :
          /\ EvaluatedEntryOf(c)
          /\ status.now = c.newVersion + oneDayMiliSeconds
          /\ ~status.response.blocked
          /\ StoredMerchant(last.request.cardID, last.request.merchantIdentifier)
                = c.value

\* a MasterCard retry command that succeeded without reaching a limit
MasterCardRetryBelowLimit(p) ==
    /\ IsRetry(p) /\ Returned(p, ErrNil)
    /\ p.request.franchise = BrandMasterCard
    /\ \A c \in CallsOf(p) : c.op # "UpdateBlockCard"

\* the command created the BlockedCard and found none of its counters
NoPriorRecords(p) ==
    /\ \E c \in CallsOf(p) : c.op = "PutBlockedCard"
    /\ FoundNoCounter(p)

\* C24: a successful MasterCard retry below the limits puts its one
\* currentDate at the head of the daily and of the monthly counter and
\* stores it as lastRetry; on a pair without records it leaves a created
\* BlockedCard and two counters with retries = [currentDate].
C24_OneTimestampPerRetry ==
    MasterCardRetryBelowLimit(last)
        => /\ \A key \in CounterKeys(last.request) :
                 \E c \in CallsOf(last) :
                     /\ c.op = "IncrementRetry" /\ c.key = key /\ c.ok
                     /\ Head(c.retries) = last.currentDate
                     /\ NoPriorRecords(last) => c.retries = <<last.currentDate>>
                     /\ NoneInFlight => cardRetryTable[key].retries = c.retries
           /\ \E c \in CallsOf(last) :
                 /\ c.op = "UpdateLastRetry" /\ c.ok
                 /\ c.value.lastRetry = last.currentDate
                 /\ NoneInFlight
                       => StoredMerchant(last.request.cardID,
                                         last.request.merchantIdentifier) = c.value

\* the retry of an unknown pair, the clock having advanced while it ran
C24_Witness ==
    /\ MasterCardRetryBelowLimit(last) /\ NoPriorRecords(last) /\ NoneInFlight
    /\ \A key \in CounterKeys(last.request) :
          cardRetryTable[key].retries = <<last.currentDate>>
    /\ StoredMerchant(last.request.cardID, last.request.merchantIdentifier).lastRetry
          = last.currentDate
    /\ clock > last.currentDate
    /\ \E c \in CallsOf(last) : c.op = "UpdateLastRetry" /\ c.newVersion > last.currentDate

\* C25: every time value a retry command writes derives from the one
\* currentDate it sampled: the head of each retries list, lastRetry, the
\* expirationDate of its block (currentDate + 24h) and every timeStamp
\* version it writes, the one of a BlockedCard it created included.
C25_SingleNowPerCommand ==
    \A p \in Records :
        (IsRetry(p) /\ p.pc \notin {"idle", "generateNewBlockedCard"})
            => \A c \in CallsOf(p) :
                  /\ (c.op = "IncrementRetry")
                        => Head(c.retries) = p.currentDate /\ c.newVersion = p.currentDate
                  /\ (c.op = "UpdateLastRetry")
                        => c.value.lastRetry = p.currentDate
                           /\ c.newVersion = p.currentDate
                  /\ (c.op = "UpdateBlockCard")
                        => c.value.expirationDate = p.currentDate + oneDayMiliSeconds
                           /\ c.newVersion = p.currentDate
                  /\ (c.op = "PutBlockedCard") => c.newVersion = p.currentDate

\* C26: a message is in the dead-letter queue exactly after maxReceiveCount
\* failed receives, and every run of the dead-letter handler makes no
\* storage call, emits one notification naming the brand and the cardID of
\* the command, and returns success.
C26_DeadLetterNotifiesOnce ==
    /\ \A i \in DOMAIN transport.queue :
          transport.queue[i].receiveCount < maxReceiveCount
    /\ \A i \in DOMAIN transport.deadLetter :
          transport.deadLetter[i].receiveCount = maxReceiveCount
    /\ \A i \in DOMAIN transport.runs :
          LET run == transport.runs[i]
          IN  /\ run.storageCalls = 0
              /\ run.ok
              /\ run.notifications = <<[franchise |-> run.body.request.franchise,
                                         cardID |-> run.body.request.cardID]>>

\* a Visa retry command that succeeded with every counter below its limit
VisaRetryBelowLimit(p) ==
    /\ IsRetry(p) /\ Returned(p, ErrNil)
    /\ EqualFold(p.request.franchise, BrandVisa)
    /\ \A c \in CallsOf(p) :
          c.op = "IncrementRetry"
              => Len(c.retries) < Limits(p.request.franchise, FrequencyOf(c.key))

\* C27: a Visa retry command below the limit issues no update of the
\* BlockedCard; while no other command runs, the stored timeStamp and
\* blockedMerchants are those the command loaded or created.
C27_VisaRetryLeavesCard ==
    VisaRetryBelowLimit(last)
        => /\ \A c \in CallsOf(last) : c.op \notin {"UpdateBlockCard", "UpdateLastRetry"}
           /\ NoneInFlight
                 => /\ HasCard(last.request.cardID)
                    /\ blockedCardTable[last.request.cardID].timeStamp
                          = last.blockedCard.timeStamp
                    /\ blockedCardTable[last.request.cardID].blockedMerchants
                          = last.blockedCard.blockedMerchants

\* a Visa retry on a card whose merchant entry holds the lastRetry of an
\* earlier MasterCard retry
C27_Witness ==
    /\ VisaRetryBelowLimit(last) /\ NoneInFlight
    /\ \E c \in CallsOf(last) : c.op = "IncrementRetry" /\ c.ok
    /\ StoredMerchant(last.request.cardID, last.request.merchantIdentifier).lastRetry > 0
    /\ blockedCardTable[last.request.cardID].blockedMerchants
          = last.blockedCard.blockedMerchants

\* the requests a command issued, in order
OpsOf(p) == [i \in DOMAIN p.calls |-> p.calls[i].op]

\* C28: a finished block command has issued the load of the BlockedCard,
\* its creation if it was not found, and one update of the BlockedCard;
\* no read and no write of a RetryCounter.
C28_BlockTouchesNoCounter ==
    \A p \in Records :
        (IsBlock(p) /\ p.pc = "done")
            => OpsOf(p) \in {<<"GetBlockedCard", "UpdateBlockCard">>,
                             <<"GetBlockedCard", "PutBlockedCard", "UpdateBlockCard">>}

\* a block command on a pair whose counters are stored: they are as before
C28_Witness ==
    /\ IsBlock(last) /\ Returned(last, ErrNil) /\ NoneInFlight
    /\ previous.pc = "idle"
    /\ OpsOf(last) = <<"GetBlockedCard", "UpdateBlockCard">>
    /\ cardRetryTable # <<>>
    /\ \E h \in Histories : cardRetryTable = h.retries

\* the Restore found no BlockedCard of its cardID
RestoreFoundNoCard(p) ==
    /\ p.kind = "restore"
    /\ \E c \in CallsOf(p) : c.op = "GetBlockedCard" /\ ~c.ok /\ ~c.fault

\* C29: a Restore that finds no BlockedCard of its cardID returns the
\* not-found error and writes no BlockedCard; while no other command runs,
\* none is stored for the cardID.
C29_RestoreUnknownCardFails ==
    \A p \in Records :
        RestoreFoundNoCard(p)
            => /\ Returned(p, ErrItemNotFound)
               /\ \A c \in CallsOf(p) : c.op \notin {"PutBlockedCard", "UpdateLastRetry"}
               /\ (p = last /\ NoneInFlight) => ~HasCard(p.request.cardID)

\* a Restore on empty tables
C29_Witness ==
    /\ RestoreFoundNoCard(last) /\ NoneInFlight
    /\ Returned(last, ErrItemNotFound)
    /\ blockedCardTable = <<>>

\* C30: once a block command has succeeded for (card, merchant), a status
\* query for the pair answers blocked, PERMANENT whenever no command is
\* running, whatever retry and Restore commands have run since.
C30_PermanentSurvivesCommands ==
    NoneInFlight
        => \A pair \in blockSucceeded :
              CheckCardStatus([cardID |-> pair[1], merchantIdentifier |-> pair[2]],
                              FALSE, clock)
                  = CheckCardStatusResponse(TRUE, PERMANENT, FALSE)

\* the commands whose history the state holds, the last two finished included
Known == Records \cup {previous}

\* C31: a retry command that read a daily counter before a successful
\* Restore deleted it, and upserts it after the delete, stores no timestamp
\* of the deleted row: the list it writes is its own currentDate alone.
C31_RestoreNotUndone ==
    \A q \in Known, p \in Known :
        (q.kind = "restore" /\ Returned(q, ErrNil) /\ IsRetry(p))
            => \A d \in CallsOf(q), c \in CallsOf(p) :
                  (/\ d.op = "DeleteCardRetry" /\ c.op = "IncrementRetry"
                   /\ c.key = d.key /\ c.ok
                   /\ c.seen <= d.at /\ d.at < c.at)
                      => c.retries = <<p.currentDate>>

\* the merchant a command is for
MerchantOf(p) ==
    IF p.kind = "restore" THEN p.request.merchantID ELSE p.request.merchantIdentifier

\* the step leaves every merchant entry and every counter of the card of
\* command p that belongs to another merchant as it was
OtherMerchantsUntouched(p) ==
    /\ \A cardID \in DOMAIN blockedCardTable :
          \A m \in DOMAIN blockedCardTable[cardID].blockedMerchants :
              (cardID = p.request.cardID /\ m # MerchantOf(p))
                  => /\ cardID \in DOMAIN blockedCardTable'
                     /\ m \in DOMAIN blockedCardTable'[cardID].blockedMerchants
                     /\ blockedCardTable'[cardID].blockedMerchants[m]
                           = blockedCardTable[cardID].blockedMerchants[m]
    /\ \A key \in DOMAIN cardRetryTable :
          (/\ cardRetryTable[key].cardID = p.request.cardID
           /\ cardRetryTable[key].merchantID # MerchantOf(p))
              => /\ key \in DOMAIN cardRetryTable'
                 /\ cardRetryTable'[key] = cardRetryTable[key]

\* C32: no step of a command for (card, M1) changes the merchant entry or a
\* RetryCounter of another merchant of the card.
C32_OtherMerchantsKept ==
    [][\A w \in Workers :
          (proc[w].pc # "idle" /\ proc'[w] # proc[w])
              => OtherMerchantsUntouched(proc[w])]_vars

\* upserts cp of p and cq of q of one counter that both commands found
\* absent in the same read state, cp the first write after the reads and cq
\* the next attempt, nothing having written or deleted the row in between
RacedUpserts(p, q, cp, cq) ==
    /\ IsRetry(p) /\ IsRetry(q)
    /\ cp.op = "IncrementRetry" /\ cq.op = "IncrementRetry"
    /\ cp.key = cq.key
    /\ cp.expected = ZeroCardRetry.timeStamp /\ cq.expected = ZeroCardRetry.timeStamp
    /\ cp.seen = cq.seen
    /\ cp.at = cp.seen
    /\ cq.at = cp.at + 1

\* C33: of two retry commands that concurrently found no counter for the
\* same retryKey, the first upsert creates the row through the
\* attribute-absent branch with the single timestamp of its command, and
\* the other upsert fails its condition against the created row and ends
\* its command with the precondition failure.
C33_OneUpsertCreates ==
    \A p \in Known, q \in Known :
        \A cp \in CallsOf(p), cq \in CallsOf(q) :
            RacedUpserts(p, q, cp, cq)
                => /\ cp.ok /\ cp.stored = NoVersion
                   /\ cp.retries = <<p.currentDate>>
                   /\ ~cq.ok /\ cq.stored = cp.newVersion
                   /\ (q.pc = "done" => q.err = ErrConditionalCheckFailed)

\* the losing command has ended while the created row holds the single
\* timestamp of the winner
C33_Witness ==
    \E p \in Known, q \in Known :
        \E cp \in CallsOf(p), cq \in CallsOf(q) :
            /\ RacedUpserts(p, q, cp, cq)
            /\ Returned(q, ErrConditionalCheckFailed)
            /\ HasRetry(cp.key)
            /\ cardRetryTable[cp.key].retries = <<p.currentDate>>
            /\ Len(cardRetryTable[cp.key].retries) = 1

\* the place of a storage call in the processing order of a retry command
RetryStage(c) ==
    CASE c.op = "GetBlockedCard" -> 0
      [] c.op = "PutBlockedCard" -> 1
      [] c.op = "GetRetry" /\ HasSuffix(c.key, DailyFrequency) -> 2
      [] c.op = "IncrementRetry" /\ HasSuffix(c.key, DailyFrequency) -> 3
      [] c.op = "GetRetry" /\ HasSuffix(c.key, MonthlyFrequency) -> 4
      [] c.op = "IncrementRetry" /\ HasSuffix(c.key, MonthlyFrequency) -> 5
      [] c.op \in {"UpdateBlockCard", "UpdateLastRetry"} -> 6
      [] OTHER -> 7

\* the get of the daily counter returned an error other than not found, or
\* its upsert returned an error
DailyCallFailed(p) ==
    \E c \in CallsOf(p) :
        /\ HasSuffix(c.key, DailyFrequency)
        /\ \/ c.op = "GetRetry" /\ c.fault
           \/ c.op = "IncrementRetry" /\ ~c.ok

\* C34: the storage calls of a retry command follow the order load of the
\* BlockedCard, its creation, get and upsert of the daily counter, get and
\* upsert of the monthly counter, update of the BlockedCard, each at most
\* once; a MasterCard retry reaches the monthly counter only after the
\* daily upsert succeeded, and when the get or the upsert of the daily
\* counter failed the command has made no call on the monthly counter and
\* no update of the BlockedCard.
C34_RetryOrder ==
    \A p \in Known :
        IsRetry(p)
            => /\ \A i \in DOMAIN p.calls, j \in DOMAIN p.calls :
                     i < j => RetryStage(p.calls[i]) < RetryStage(p.calls[j])
               /\ \A c \in CallsOf(p) : RetryStage(c) < 7
               /\ p.calls # <<>> => p.calls[1].op = "GetBlockedCard"
               /\ (p.request.franchise = BrandMasterCard
                     /\ \E c \in CallsOf(p) : RetryStage(c) \in {4, 5, 6})
                      => \E c \in CallsOf(p) : RetryStage(c) = 3 /\ c.ok
               /\ DailyCallFailed(p)
                      => \A c \in CallsOf(p) : RetryStage(c) \notin {4, 5, 6}

\* a MasterCard retry whose daily upsert returned an error has ended there
\* while the monthly counter and the merchant entry are stored as before
C34_Witness ==
    /\ IsRetry(last) /\ last.request = MasterCardRequest
    /\ Returned(last, ErrStorage)
    /\ OpsOf(last) = <<"GetBlockedCard", "GetRetry", "IncrementRetry">>
    /\ DailyCallFailed(last)
    /\ previous = IdleProc
    /\ cardRetryTable = MasterCardHistory(5, 1).retries
    /\ blockedCardTable = MasterCardHistory(5, 1).cards

\* previous is a retry command that ended with the error of its BlockedCard
\* update, and last is the next delivery of the same command
RedeliveredAfterCardFailure ==
    /\ IsRetry(previous) /\ previous.pc = "done" /\ previous.err # ErrNil
    /\ \E c \in CallsOf(previous) :
          c.op \in {"UpdateBlockCard", "UpdateLastRetry"} /\ ~c.ok
    /\ IsRetry(last) /\ last.request = previous.request

\* C35: a retry command whose BlockedCard update failed has upserted every
\* counter of its franchise with its timestamp in front, and the next
\* delivery of the same command reads those lists and stores them with one
\* more timestamp in front: the one retry event is counted once per delivery.
C35_RedeliveryCountedAgain ==
    RedeliveredAfterCardFailure
        => /\ \A key \in CounterKeys(previous.request) :
                 \E cp \in CallsOf(previous) :
                     /\ cp.op = "IncrementRetry" /\ cp.key = key /\ cp.ok
                     /\ Head(cp.retries) = previous.currentDate
           /\ \A cl \in CallsOf(last) :
                 (cl.op = "IncrementRetry" /\ ~cl.fault)
                     => /\ cl.ok
                        /\ \E cp \in CallsOf(previous) :
                              /\ cp.op = "IncrementRetry" /\ cp.key = cl.key
                              /\ cl.retries = <<last.currentDate>> \o cp.retries
                              /\ Len(cl.retries) = Len(cp.retries) + 1

\* the sixth MasterCard retry of a day fails at its BlockedCard update and
\* is delivered again: the daily counter holds seven timestamps, two of them
\* of this retry, and the redelivery applies the TEMPORARY block
C35_Witness ==
    /\ RedeliveredAfterCardFailure
    /\ last.request = MasterCardRequest
    /\ Returned(last, ErrNil)
    /\ IssuedTemporaryBlock(last)
    /\ \A key \in CounterKeys(last.request) :
          /\ HasRetry(key)
          /\ SubSeq(cardRetryTable[key].retries, 1, 2)
                 = <<last.currentDate, previous.currentDate>>
          /\ Len(cardRetryTable[key].retries) = 7

\* the elements of old newer than now - window, in their order
RECURSIVE Within(_, _, _)
Within(old, now, window) ==
    IF old = <<>> THEN <<>>
    ELSE (IF Head(old) > now - window THEN <<Head(old)>> ELSE <<>>)
             \o Within(Tail(old), now, window)

\* C36: the list an upsert stores is the currentDate of its command followed
\* by exactly the elements of the list it read that are newer than
\* currentDate minus the window of the frequency (a day for daily, 30 days
\* otherwise), in their order; it is never empty.
C36_ValidRetries ==
    [][\A w \in Workers :
          (proc[w].pc = "incrementRetry" /\ proc'[w] # proc[w])
              => LET p == proc[w]
                     key == generateRetryKey(p.request,
                                             Frequencies(p.request.franchise)[p.fi])
                 IN  /\ key \in DOMAIN cardRetryTable'
                     /\ cardRetryTable'[key].retries
                            = <<p.currentDate>>
                                  \o Within(p.retry.retries, p.currentDate,
                                            RetentionWindow(FrequencyOf(key)))
                     /\ Len(cardRetryTable'[key].retries) >= 1]_vars

\* the daily upsert of a retry made at Base read the retries of 1, 23 and 24
\* hours before and stored the first two after its own timestamp
C36_Witness ==
    \E w \in Workers :
        /\ proc[w].pc = "getRetry" /\ proc[w].fi = 2
        /\ proc[w].currentDate = Base
        /\ proc[w].retry.retries
               = <<Base - 1, Base - (oneDayMiliSeconds - 1), Base - oneDayMiliSeconds>>
        /\ cardRetryTable[generateRetryKey(MasterCardRequest, DailyFrequency)].retries
               = <<Base, Base - 1, Base - (oneDayMiliSeconds - 1)>>

\* invocation w ends a Restore in this step, at the load of the BlockedCard
\* or at the update of lastRetry
RestoreEndsAtCard(w) ==
    /\ proc[w].kind = "restore"
    /\ proc[w].pc \in {"cleanLastRetry", "cleanLastRetryUpdate"}
    /\ proc'[w].pc = "idle"

\* C37: a Restore makes its deletes of daily counters before it loads the
\* BlockedCard, and when the load returns not found or an error, or the
\* update of lastRetry fails its condition or returns an error, the
\* command ends with that error and every row it deleted is absent.
C37_FailedRestoreKeepsDeletes ==
    [][\A w \in Workers :
          RestoreEndsAtCard(w)
              => /\ \A i \in DOMAIN last'.calls, j \in DOMAIN last'.calls :
                       (i < j /\ last'.calls[j].op = "DeleteCardRetry")
                           => last'.calls[i].op \in {"QueryRetries", "DeleteCardRetry"}
                 /\ last'.err # ErrNil
                       => \A d \in CallsOf(last') :
                              d.op = "DeleteCardRetry"
                                  => d.key \notin DOMAIN cardRetryTable']_vars

\* a Restore deleted the daily counter, a block command changed the
\* BlockedCard after the Restore had loaded it, and the Restore ended with
\* the failed condition of its update: the daily counter is gone, the
\* monthly one is stored
C37_Witness ==
    /\ last.kind = "restore"
    /\ Returned(last, ErrConditionalCheckFailed)
    /\ \E d \in CallsOf(last) :
          /\ d.op = "DeleteCardRetry" /\ d.stored # NoVersion
          /\ d.key = generateRetryKey(MasterCardRequest, DailyFrequency)
    /\ ~HasRetry(generateRetryKey(MasterCardRequest, DailyFrequency))
    /\ HasRetry(generateRetryKey(MasterCardRequest, MonthlyFrequency))

\* previous is a successful retry that applied the TEMPORARY block, and last
\* is the next successful retry of the same pair, one of whose counters is
\* still at or above its limit after pruning
OverflowAgain ==
    /\ IsRetry(previous) /\ Returned(previous, ErrNil)
    /\ IssuedTemporaryBlock(previous)
    /\ IsRetry(last) /\ Returned(last, ErrNil)
    /\ last.request = previous.request
    /\ ReachedLimit(last)

\* C38: a retry of a pair that is under a TEMPORARY block is counted like
\* any other: every counter of the franchise gets its timestamp in front,
\* and while a pruned list is at or above its limit the command rewrites
\* the TEMPORARY block with the expirationDate of its own time plus 24h,
\* which is not lower than the expirationDate it replaces.
C38_OverflowBlocksAgain ==
    OverflowAgain
        => /\ \A key \in CounterKeys(last.request) :
                 \E c \in CallsOf(last) :
                     /\ c.op = "IncrementRetry" /\ c.key = key /\ c.ok
                     /\ Head(c.retries) = last.currentDate
           /\ \E b \in CallsOf(last) :
                 /\ b.op = "UpdateBlockCard" /\ b.ok
                 /\ b.prev.blockType = TEMPORARY
                 /\ b.value.blockType = TEMPORARY
                 /\ b.value.expirationDate = b.newVersion + oneDayMiliSeconds
                 /\ b.value.expirationDate >= b.prev.expirationDate
                 /\ StoredMerchant(last.request.cardID, last.request.merchantIdentifier)
                        = b.value

\* the 16th Visa retry of a month arrives 23 hours after the 15th, while
\* the block of the 15th is in force, and moves the expirationDate forward
C38_Witness ==
    /\ OverflowAgain
    /\ last.request = VisaRequest
    /\ \E b \in CallsOf(last) :
          /\ b.op = "UpdateBlockCard" /\ b.ok
          /\ b.prev.blockType = TEMPORARY
          /\ b.prev.expirationDate > last.currentDate
          /\ b.value.expirationDate = b.prev.expirationDate + (oneDayMiliSeconds - 1)
    /\ \E c \in CallsOf(last) : c.op = "IncrementRetry" /\ Len(c.retries) = 16

\* the answer of the status evaluator for a stored merchant entry, now
StatusNow(cardID, merchantID) ==
    CheckCardStatus([cardID |-> cardID, merchantIdentifier |-> merchantID],
                    FALSE, clock)

\* C39: every stored merchant entry with the empty blockType has
\* expirationDate 0, and the status evaluator answers blockType TEMPORARY
\* only for an entry stored with blockType TEMPORARY.
C39_EmptyBlockTypeNeverExpires ==
    \A cardID \in DOMAIN blockedCardTable :
        \A merchantID \in DOMAIN blockedCardTable[cardID].blockedMerchants :
            LET entry == blockedCardTable[cardID].blockedMerchants[merchantID]
            IN  /\ entry.blockType = EmptyString => entry.expirationDate = 0
                /\ StatusNow(cardID, merchantID).blockType = TEMPORARY
                       => entry.blockType = TEMPORARY

\* a Restore replaced a stored block by the entry without blockType:
\* expirationDate 0, and the evaluator answers not blocked
C39_Witness ==
    /\ last.kind = "restore" /\ Returned(last, ErrNil)
    /\ \E c \in CallsOf(last) :
          /\ c.op = "UpdateLastRetry" /\ c.ok
          /\ c.prev.blockType # EmptyString /\ c.prev.expirationDate > clock
          /\ c.value.blockType = EmptyString
          /\ StoredMerchant(last.request.cardID, last.request.merchantID) = c.value
    /\ StoredMerchant(last.request.cardID, last.request.merchantID).expirationDate = 0
    /\ StatusNow(last.request.cardID, last.request.merchantID)
           = CheckCardStatusResponse(FALSE, EmptyString, FALSE)

\* the conditional writes of the commands
ConditionalWrites == {"IncrementRetry", "UpdateBlockCard", "UpdateLastRetry"}

\* a conditional write fails only when another command's write of the same
\* record succeeded after this command read it
SomeWriteWon ==
    \A p \in Known :
        \A c \in CallsOf(p) :
            (c.op \in ConditionalWrites /\ ~c.ok) => c.at > c.seen

\* a message is received at most maxReceiveCount times, reaches the
\* dead-letter queue only with that count, and is never lost
ReceivesBounded ==
    /\ \A i \in DOMAIN transport.queue :
          transport.queue[i].receiveCount < maxReceiveCount
    /\ \A w \in DOMAIN transport.inFlight :
          transport.inFlight[w].receiveCount <= maxReceiveCount
    /\ \A i \in DOMAIN transport.deadLetter :
          transport.deadLetter[i].receiveCount = maxReceiveCount
    /\ Len(transport.queue) + Cardinality(DOMAIN transport.inFlight)
           + Len(transport.deadLetter) + transport.deleted = transport.sent

\* every command has been deleted after a successful run or moved to the
\* dead-letter queue, and no invocation is running
AllCommandsSettled ==
    /\ transport.queue = <<>>
    /\ DOMAIN transport.inFlight = {}
    /\ \A w \in Workers : proc[w].pc = "idle"
    /\ transport.deleted + Len(transport.deadLetter) = transport.sent

\* C40: with a finite set of commands, no storage fault and fair
\* scheduling, a conditional write fails only when another write of the
\* same record succeeded since the command read it, no message is received
\* more than 3 times, and eventually every command has completed
\* successfully or lies in the dead-letter queue after 3 failed receives,
\* for good.
C40_EveryCommandSettles ==
    /\ [](SomeWriteWon /\ ReceivesBounded)
    /\ <>[]AllCommandsSettled

\* one of two commands lost its conditional write to the other, was
\* delivered again and succeeded: both messages deleted after three receives
C40_Witness ==
    /\ AllCommandsSettled
    /\ transport.deleted = 2
    /\ started = 3
    /\ Returned(last, ErrNil)
    /\ Returned(previous, ErrConditionalCheckFailed)
    /\ last.request = previous.request

============================================================================
